---- MODULE Spec2Model ----
(***************************************************************************)
(* Verification model of the visionx document pipeline:                    *)
(*   - services/geminiService (kept in src/services/supabaseService.ts):   *)
(*     resolveApiKey, getAiClient, analyzeDocument with its retry loop     *)
(*     and its error mapping;                                              *)
(*   - utils/pdfPasswordHandler (kept in src/vite.config.ts):              *)
(*     isPasswordProtected and convertPdfToImages.                         *)
(* Text is modelled as TLA+ strings and every text operation of the code   *)
(* (trim, toLowerCase, includes, the fence-stripping replace, JSON.parse)  *)
(* is computed character by character.                                     *)
(***************************************************************************)
EXTENDS Integers, Sequences, FiniteSets, TLC

(***************************************************************************)
(* Optional values: null/undefined is <<>>, a present value v is <<v>>.    *)
(***************************************************************************)
None == <<>>

Some(v) == <<v>>

(***************************************************************************)
(* JavaScript string primitives.                                           *)
(***************************************************************************)
CharAt(s, i) == IF i >= 1 /\ i <= Len(s) THEN SubSeq(s, i, i) ELSE ""

IsWhitespace(c) == c \in {" ", "\n", "\t", "\r"}

\* String.prototype.includes
Includes(s, p) ==
  \E i \in 1..(Len(s) - Len(p) + 1) : SubSeq(s, i, i + Len(p) - 1) = p

StartsWith(s, p) == Len(s) >= Len(p) /\ SubSeq(s, 1, Len(p)) = p

EndsWith(s, p) == Len(s) >= Len(p) /\ SubSeq(s, Len(s) - Len(p) + 1, Len(s)) = p

UpperChars == <<"A","B","C","D","E","F","G","H","I","J","K","L","M",
                "N","O","P","Q","R","S","T","U","V","W","X","Y","Z">>

LowerChars == <<"a","b","c","d","e","f","g","h","i","j","k","l","m",
                "n","o","p","q","r","s","t","u","v","w","x","y","z">>

LowerChar(c) ==
  IF \E k \in 1..Len(UpperChars) : UpperChars[k] = c
  THEN LowerChars[CHOOSE k \in 1..Len(UpperChars) : UpperChars[k] = c]
  ELSE c

RECURSIVE LowerFrom(_, _)
LowerFrom(s, i) ==
  IF i > Len(s) THEN "" ELSE LowerChar(CharAt(s, i)) \o LowerFrom(s, i + 1)

\* String.prototype.toLowerCase
ToLowerCase(s) == LowerFrom(s, 1)

RECURSIVE SkipWhitespace(_, _)
SkipWhitespace(s, i) ==
  IF i <= Len(s) /\ IsWhitespace(CharAt(s, i)) THEN SkipWhitespace(s, i + 1) ELSE i

RECURSIVE SkipWhitespaceBack(_, _)
SkipWhitespaceBack(s, j) ==
  IF j >= 1 /\ IsWhitespace(CharAt(s, j)) THEN SkipWhitespaceBack(s, j - 1) ELSE j

\* String.prototype.trim
Trim(s) == SubSeq(s, SkipWhitespace(s, 1), SkipWhitespaceBack(s, Len(s)))

(***************************************************************************)
(* Markdown fences.  A TLA+ string cannot hold U+0060 (the lexer rejects   *)
(* it), so Backtick is the one-character stand-in for it in every text.    *)
(***************************************************************************)
Backtick == "~"

Fence == Backtick \o Backtick \o Backtick

\* A mutation of the replace: only the opening fence is removed.
StripFencesPrefixOnly(jsonText) ==
  IF StartsWith(jsonText, Fence \o "json")
  THEN SubSeq(jsonText, SkipWhitespace(jsonText, Len(Fence) + 5), Len(jsonText))
  ELSE jsonText

\* jsonText.replace(/^```json\s*|```$/g, ""): the first alternative can match
\* only at index 0 and takes the whitespace after it, the second only at the
\* end of the text.
StripFences(jsonText) ==
  LET afterOpen == IF StartsWith(jsonText, Fence \o "json")
                   THEN SubSeq(jsonText, SkipWhitespace(jsonText, Len(Fence) + 5),
                               Len(jsonText))
                   ELSE jsonText
  IN IF EndsWith(afterOpen, Fence)
     THEN SubSeq(afterOpen, 1, Len(afterOpen) - Len(Fence))
     ELSE afterOpen

(***************************************************************************)
(* JSON.parse.  A value is a tagged record; an object's members are a      *)
(* function from its keys, a later duplicate key replacing an earlier one. *)
(* String contents are kept as written (escape sequences are not decoded). *)
(***************************************************************************)
ParseFail == [ok |-> FALSE, pos |-> 0, val |-> None]

ParseOk(p, v) == [ok |-> TRUE, pos |-> p, val |-> Some(v)]

IsDigit(c) == c \in {"0", "1", "2", "3", "4", "5", "6", "7", "8", "9"}

RECURSIVE DigitsEnd(_, _)
DigitsEnd(s, i) == IF IsDigit(CharAt(s, i)) THEN DigitsEnd(s, i + 1) ELSE i

\* Index of the quote closing the string whose content starts at i; 0 when
\* the string is unterminated or holds a raw control character.
RECURSIVE StringEnd(_, _)
StringEnd(s, i) ==
  IF i > Len(s) THEN 0
  ELSE IF CharAt(s, i) = "\"" THEN i
  ELSE IF CharAt(s, i) \in {"\n", "\t", "\r"} THEN 0
  ELSE IF CharAt(s, i) = "\\" THEN StringEnd(s, i + 2)
  ELSE StringEnd(s, i + 1)

\* s[i] is the opening quote.
ParseString(s, i) ==
  LET e == StringEnd(s, i + 1)
  IN IF e = 0 THEN ParseFail
     ELSE ParseOk(e + 1, [type |-> "string", str |-> SubSeq(s, i + 1, e - 1)])

ParseLiteral(s, i, word) ==
  IF SubSeq(s, i, i + Len(word) - 1) = word
  THEN ParseOk(i + Len(word), [type |-> "literal", lit |-> word])
  ELSE ParseFail

ParseNumber(s, i) ==
  LET d == IF CharAt(s, i) = "-" THEN i + 1 ELSE i
      e == DigitsEnd(s, d)
  IN IF e = d THEN ParseFail
     ELSE ParseOk(e, [type |-> "number", digits |-> SubSeq(s, i, e - 1)])

PutMember(members, key, v) ==
  [k \in DOMAIN members \cup {key} |-> IF k = key THEN v ELSE members[k]]

RECURSIVE ParseValue(_, _)
RECURSIVE ParseElements(_, _, _)
RECURSIVE ParseMembers(_, _, _)
ParseValue(s, i0) ==
  LET i == SkipWhitespace(s, i0)
      c == CharAt(s, i)
  IN IF c = "\"" THEN ParseString(s, i)
     ELSE IF c = "[" THEN
       IF CharAt(s, SkipWhitespace(s, i + 1)) = "]"
       THEN ParseOk(SkipWhitespace(s, i + 1) + 1, [type |-> "array", items |-> <<>>])
       ELSE ParseElements(s, i + 1, <<>>)
     ELSE IF c = "{" THEN
       IF CharAt(s, SkipWhitespace(s, i + 1)) = "}"
       THEN ParseOk(SkipWhitespace(s, i + 1) + 1, [type |-> "object", members |-> <<>>])
       ELSE ParseMembers(s, i + 1, <<>>)
     ELSE IF c = "t" THEN ParseLiteral(s, i, "true")
     ELSE IF c = "f" THEN ParseLiteral(s, i, "false")
     ELSE IF c = "n" THEN ParseLiteral(s, i, "null")
     ELSE IF c = "-" \/ IsDigit(c) THEN ParseNumber(s, i)
     ELSE ParseFail

ParseElements(s, i, acc) ==
  LET r == ParseValue(s, i)
  IN IF ~r.ok THEN ParseFail
     ELSE LET j == SkipWhitespace(s, r.pos)
              items == Append(acc, r.val[1])
          IN IF CharAt(s, j) = "," THEN ParseElements(s, j + 1, items)
             ELSE IF CharAt(s, j) = "]"
                  THEN ParseOk(j + 1, [type |-> "array", items |-> items])
                  ELSE ParseFail

ParseMembers(s, i, acc) ==
  LET k == SkipWhitespace(s, i)
  IN IF CharAt(s, k) # "\"" THEN ParseFail
     ELSE LET key == ParseString(s, k)
          IN IF ~key.ok THEN ParseFail
             ELSE LET c == SkipWhitespace(s, key.pos)
                  IN IF CharAt(s, c) # ":" THEN ParseFail
                     ELSE LET v == ParseValue(s, c + 1)
                          IN IF ~v.ok THEN ParseFail
                             ELSE LET j == SkipWhitespace(s, v.pos)
                                      members == PutMember(acc, key.val[1].str, v.val[1])
                                  IN IF CharAt(s, j) = ","
                                     THEN ParseMembers(s, j + 1, members)
                                     ELSE IF CharAt(s, j) = "}"
                                          THEN ParseOk(j + 1, [type |-> "object",
                                                               members |-> members])
                                          ELSE ParseFail

\* JSON.parse(text): the whole text must be one value.
JSONParse(text) ==
  LET r == ParseValue(text, 1)
  IN IF r.ok /\ SkipWhitespace(text, r.pos) > Len(text) THEN r ELSE ParseFail

\* The message of the SyntaxError JSON.parse throws is the engine's choice:
\* SpiderMonkey names a position, V8 quotes the rejected text.
SyntaxErrorMessages(text) ==
  { "JSON.parse: unexpected character at line 1 column 1 of the JSON data",
    "Unexpected token, \"" \o text \o "\" is not valid JSON" }

(***************************************************************************)
(* State of the analysis service (services/geminiService).                 *)
(*   env               where resolveApiKey looks: import.meta.env, the     *)
(*                     global API_KEY, localStorage (which may throw)      *)
(*   cachedClientKey, cachedAi   the module-level cache of getAiClient     *)
(*   pc, files, attempt, lastErr one analyzeDocument call                  *)
(*   result, thrown    what that call returned or threw                    *)
(*   events            the call's encodings, provider calls and sleeps,    *)
(*                     in the order they were started                      *)
(*   attempts          the outcome of each attempt of the retry loop: the  *)
(*                     caught error's message, or the response's text      *)
(***************************************************************************)
VARIABLES env, cachedClientKey, cachedAi,
          pc, files, attempt, lastErr, result, thrown, events, attempts

geminiVars == <<env, cachedClientKey, cachedAi,
                pc, files, attempt, lastErr, result, thrown, events, attempts>>

(***************************************************************************)
(* State of one call of isPasswordProtected or convertPdfToImages          *)
(* (utils/pdfPasswordHandler):                                             *)
(*   pdfCall      which of the two is running (or ran last)                *)
(*   pdfPc        where it is: reading (file.arrayBuffer), opening         *)
(*                (getDocument), page (the detector's getPage(1)),         *)
(*                rendering (the rasterizer's page loop), returned, thrown *)
(*   pdfFile, password           its arguments                             *)
(*   pdfDocument, pageNum, imageFiles   the rasterizer's locals            *)
(*   skipped      the pages the loop left with `continue`                  *)
(*   pdfError, pdfCaughtAt       the error a catch block received, and the *)
(*                await that raised it                                     *)
(*   pdfReturned, pdfThrown      the detector's boolean, the thrown message*)
(***************************************************************************)
VARIABLES pdfCall, pdfPc, pdfFile, password, pdfDocument, pageNum, imageFiles,
          skipped, pdfError, pdfCaughtAt, pdfReturned, pdfThrown

pdfVars == <<pdfCall, pdfPc, pdfFile, password, pdfDocument, pageNum, imageFiles,
             skipped, pdfError, pdfCaughtAt, pdfReturned, pdfThrown>>

(***************************************************************************)
(* State of the DocumentAnalysis component: its useState values (error and *)
(* password are errorState and passwordState here) and the invocations of  *)
(* handleAnalyzeWithFile that are under way or have ended.                 *)
(***************************************************************************)
VARIABLES isLoading, errorState, analysisResult, saveSuccess, showPasswordPrompt,
          passwordState, passwordError, pendingFile, invocations

uiVars == <<isLoading, errorState, analysisResult, saveSuccess, showPasswordPrompt,
            passwordState, passwordError, pendingFile, invocations>>

\* The objects new GoogleGenAI has constructed, told apart by a serial number:
\* the calls of getAiClient made so far, the clients constructed so far, the
\* serial of the client in cachedAi (0 when there is none) and what the last
\* call returned.
VARIABLES clientCalls, clientsCreated, cachedSerial, returnedClient

clientVars == <<clientCalls, clientsCreated, cachedSerial, returnedClient>>

\* The Supabase project as documentService.deleteDocument sees it: the rows of
\* table 'documents', the object paths in storage bucket 'documents', and one
\* call of deleteDocument.
VARIABLES documents, bucket, delCall

docVars == <<documents, bucket, delCall>>

\* The state of the analysis side, and the state behind the services.
analysisVars == <<geminiVars, pdfVars, uiVars, clientVars>>

\* The chat tables as chatService sees them: the rows of 'chat_history' and of
\* 'chat_sessions', and one call of deleteChatSession.
VARIABLES chatHistory, chatSessions, delSession

chatVars == <<chatHistory, chatSessions, delSession>>

\* Dashboard and the LegalQA it mounts on tab 'qa': the tab, the session that
\* is to be continued, the useState values of LegalQA, the run of initChat in
\* flight, handleSendMessage's invocation, and how often LegalQA was mounted,
\* a message was sent and crypto.randomUUID was called.
VARIABLES activeTab, loadChatSessionId, legalQA, initChat, send, mounts, sends, uuids

qaVars == <<activeTab, loadChatSessionId, legalQA, initChat, send, mounts, sends,
           uuids>>

backendVars == <<docVars, chatVars, qaVars>>

(***************************************************************************)
(* resolveApiKey and getAiClient.                                          *)
(***************************************************************************)
\* (k && k.trim()) for a value that is undefined, null or a string
NonBlank(k) == k # None /\ Trim(k[1]) # ""

resolveApiKey(e) ==
  IF NonBlank(e.viteKey) THEN Some(Trim(e.viteKey[1]))
  ELSE IF NonBlank(e.windowKey) THEN Some(Trim(e.windowKey[1]))
  ELSE IF ~e.storageThrows /\ NonBlank(e.stored) THEN Some(Trim(e.stored[1]))
  ELSE None

\* new GoogleGenAI({ apiKey: key })
GoogleGenAI(key) == [apiKey |-> key]

ServiceUnavailable == "SERVICE_UNAVAILABLE"

\* A mutation of getAiClient: the cache is cleared before the key is checked.
getAiClientClearing(e, cKey, cAi) ==
  LET key == resolveApiKey(e)
  IN IF key = None
     THEN [threw |-> TRUE, message |-> ServiceUnavailable, created |-> FALSE,
           cachedClientKey |-> None, cachedAi |-> None]
     ELSE [threw |-> FALSE, message |-> "", created |-> TRUE,
           cachedClientKey |-> key, cachedAi |-> Some(GoogleGenAI(key[1]))]

\* A mutation of getAiClient: a client is constructed on every call that has a
\* key, the cached one is never returned.
getAiClientAlwaysNew(e, cKey, cAi) ==
  LET key == resolveApiKey(e)
  IN IF key = None
     THEN [threw |-> TRUE, message |-> ServiceUnavailable, created |-> FALSE,
           cachedClientKey |-> cKey, cachedAi |-> cAi]
     ELSE [threw |-> FALSE, message |-> "", created |-> TRUE,
           cachedClientKey |-> key, cachedAi |-> Some(GoogleGenAI(key[1]))]

\* getAiClient() run with the cache (cKey, cAi): whether it threw, whether it
\* ran new GoogleGenAI, and the cache it leaves; the client it returns is the
\* cachedAi it leaves.
getAiClient(e, cKey, cAi) ==
  LET key == resolveApiKey(e)
  IN IF key = None
     THEN [threw |-> TRUE, message |-> ServiceUnavailable, created |-> FALSE,
           cachedClientKey |-> cKey, cachedAi |-> cAi]
     ELSE IF cAi # None /\ cKey = key
     THEN [threw |-> FALSE, message |-> "", created |-> FALSE,
           cachedClientKey |-> cKey, cachedAi |-> cAi]
     ELSE [threw |-> FALSE, message |-> "", created |-> TRUE,
           cachedClientKey |-> key, cachedAi |-> Some(GoogleGenAI(key[1]))]

(***************************************************************************)
(* analyzeDocument: the rate-limit test, the backoff and the error mapping *)
(***************************************************************************)
\* /quota|rate|429|resource exhausted/i.test(msg)
isRateLimited(msg) ==
  LET m == ToLowerCase(msg)
  IN \/ Includes(m, "quota")
     \/ Includes(m, "rate")
     \/ Includes(m, "429")
     \/ Includes(m, "resource exhausted")

\* A mutation of the retry test: any failure is retried while attempts remain.
ShouldRetryAnyFailure(msg, n) == n < 2

\* isRateLimited(msg) && attempt < 2
ShouldRetry(msg, n) == isRateLimited(msg) /\ n < 2

RECURSIVE Pow2(_)
Pow2(n) == IF n = 0 THEN 1 ELSE 2 * Pow2(n - 1)

\* A mutation of the backoff: a fixed delay.
BackoffMsFixed(n) == 1000

\* 1000 * Math.pow(2, attempt)
BackoffMs(n) == 1000 * Pow2(n)

RateLimitedMessage ==
  "Model quota/rate limit reached. Retried automatically; please try again in a moment or adjust your quota."

UnsupportedMediaMessage ==
  "Unsupported file type. Please upload PDF, DOCX, PNG, or JPG."

PasswordProtectedMessage ==
  "The document appears to be password-protected or corrupted. If this is an Aadhaar PDF, please enter the password when prompted."

AnalysisFailedMessage ==
  "Failed to analyze the document. The AI model could not process the request. Please ensure you've uploaded a clear document (PDF, DOCX, PNG, JPG)."

\* The messages analyzeDocument throws.
TaxonomyMessages ==
  { ServiceUnavailable, RateLimitedMessage, UnsupportedMediaMessage,
    PasswordProtectedMessage, AnalysisFailedMessage }

\* A mutation of the error mapping: an unrecognised error is rethrown as it is.
MapErrorRethrowing(message) ==
  IF Includes(message, "API key") \/ Includes(message, "Missing API key")
  THEN ServiceUnavailable
  ELSE IF \/ Includes(ToLowerCase(message), "quota")
          \/ Includes(ToLowerCase(message), "rate")
          \/ Includes(message, "429")
  THEN RateLimitedMessage
  ELSE IF \/ Includes(ToLowerCase(message), "unsupported")
          \/ Includes(ToLowerCase(message), "mime")
  THEN UnsupportedMediaMessage
  ELSE IF Includes(message, "no pages") \/ Includes(message, "document has no pages")
  THEN PasswordProtectedMessage
  ELSE message

\* A mutation of the error mapping: the 'no pages' test is made first.
MapErrorNoPagesFirst(message) ==
  IF Includes(message, "no pages") \/ Includes(message, "document has no pages")
  THEN PasswordProtectedMessage
  ELSE IF Includes(message, "API key") \/ Includes(message, "Missing API key")
  THEN ServiceUnavailable
  ELSE IF \/ Includes(ToLowerCase(message), "quota")
          \/ Includes(ToLowerCase(message), "rate")
          \/ Includes(message, "429")
  THEN RateLimitedMessage
  ELSE IF \/ Includes(ToLowerCase(message), "unsupported")
          \/ Includes(ToLowerCase(message), "mime")
  THEN UnsupportedMediaMessage
  ELSE AnalysisFailedMessage

\* The outer catch: the message of the Error it throws for a caught message.
MapError(message) ==
  IF Includes(message, "API key") \/ Includes(message, "Missing API key")
  THEN ServiceUnavailable
  ELSE IF \/ Includes(ToLowerCase(message), "quota")
          \/ Includes(ToLowerCase(message), "rate")
          \/ Includes(message, "429")
  THEN RateLimitedMessage
  ELSE IF \/ Includes(ToLowerCase(message), "unsupported")
          \/ Includes(ToLowerCase(message), "mime")
  THEN UnsupportedMediaMessage
  ELSE IF Includes(message, "no pages") \/ Includes(message, "document has no pages")
  THEN PasswordProtectedMessage
  ELSE AnalysisFailedMessage

\* A mutation of the validation: the size of the files is not looked at.
ValidationErrorNoSizeCheck(fs) ==
  IF Len(fs) = 0 THEN Some("No files provided for analysis") ELSE None

\* The validation at the head of the try block: the message thrown, if any.
ValidationError(fs) ==
  IF Len(fs) = 0 THEN Some("No files provided for analysis")
  ELSE IF \E i \in 1..Len(fs) : fs[i].size = 0
  THEN Some("One or more files are empty or invalid")
  ELSE None

\* analysisSchema.required
RequiredFields == {"summary", "pros", "cons", "potentialLoopholes", "potentialChallenges"}

\* fileToGenerativePart: the part built for a file.
fileToGenerativePart(f) ==
  [inlineData |-> Some([data |-> "base64:" \o f.name, mimeType |-> f.type])]

\* fileParts.length === 0 || fileParts.some(part => !part || !part.inlineData)
FilePartsInvalid(parts) ==
  Len(parts) = 0 \/ \E i \in 1..Len(parts) : parts[i].inlineData = None

(***************************************************************************)
(* Inputs.                                                                 *)
(***************************************************************************)
\* The longest file list handed to analyzeDocument.
MaxFiles == 2

DocumentFile == [name |-> "lease.png", type |-> "image/png", size |-> 2048]

EmptyFile == [name |-> "blank.png", type |-> "image/png", size |-> 0]

FileInputs == {DocumentFile, EmptyFile}

\* analyzeDocument(file: File | File[])
AnalyzeArgs ==
  {[array |-> FALSE, file |-> f] : f \in FileInputs}
  \cup {[array |-> TRUE, items |-> fs] :
          fs \in UNION {[1..n -> FileInputs] : n \in 0..MaxFiles}}

NoKeys == [viteKey |-> None, windowKey |-> None, stored |-> None, storageThrows |-> FALSE]

EnvInputs ==
  { NoKeys,
    [NoKeys EXCEPT !.viteKey = Some("  "), !.windowKey = Some(""), !.stored = Some(" \n")],
    [NoKeys EXCEPT !.stored = Some("key-1"), !.storageThrows = TRUE],
    [NoKeys EXCEPT !.viteKey = Some(" key-1 ")],
    [NoKeys EXCEPT !.viteKey = Some(" "), !.windowKey = Some("key-2")],
    [NoKeys EXCEPT !.stored = Some("key-1\n")],
    [NoKeys EXCEPT !.viteKey = Some("key-2"), !.windowKey = Some("key-1")] }

\* Messages of the errors generateContent rejects with.
ProviderErrors ==
  { "429 Too Many Requests",
    "Quota exceeded",
    "Resource exhausted",
    "Rate limit exceeded for this API key",
    "API key not valid. Please pass a valid API key.",
    "Unsupported MIME type",
    "The document has no pages.",
    "Internal error encountered." }

CompleteJson ==
  "{\"summary\":\"Lease\",\"pros\":[\"low rent\"],\"cons\":[],\"potentialLoopholes\":[],\"potentialChallenges\":[],\"isLegal\":true}"

NoSummaryJson ==
  "{\"pros\":[],\"cons\":[],\"potentialLoopholes\":[],\"potentialChallenges\":[]}"

\* response.text of the responses generateContent resolves with (None: no text).
ResponseTexts ==
  { None,
    Some(" \n"),
    Some(CompleteJson),
    Some(Fence \o "json\n" \o CompleteJson \o "\n" \o Fence),
    Some(NoSummaryJson),
    Some("{\"summary\":\"Lease\"}"),
    Some("The quota was exceeded"),
    Some("{\"summary\":") }

(***************************************************************************)
(* analyzeDocument, one action per synchronous stretch of it.              *)
(***************************************************************************)
InFlight == pc \in {"encoding", "calling", "sleeping"}

EncodeEvents(fs) == [i \in 1..Len(fs) |-> [op |-> "encode", arg |-> i]]

\* The call with its first synchronous stretch: getAiClient, the validation,
\* and files.map(fileToGenerativePart), which starts every encoding.
AnalyzeDocument(arg) ==
  /\ ~InFlight
  /\ LET c == getAiClient(env, cachedClientKey, cachedAi)
         fs == IF arg.array THEN arg.items ELSE <<arg.file>>
     IN /\ cachedClientKey' = c.cachedClientKey
        /\ cachedAi' = c.cachedAi
        /\ files' = fs
        /\ IF c.threw
           THEN /\ pc' = "thrown"
                /\ thrown' = Some(c.message)
                /\ events' = <<>>
           ELSE IF ValidationError(fs) # None
           THEN /\ pc' = "thrown"
                /\ thrown' = Some(MapError(ValidationError(fs)[1]))
                /\ events' = <<>>
           ELSE /\ pc' = "encoding"
                /\ thrown' = None
                /\ events' = EncodeEvents(fs)
  /\ attempt' = 0
  /\ lastErr' = None
  /\ result' = None
  /\ attempts' = <<>>
  /\ UNCHANGED env
  /\ UNCHANGED <<pdfVars, uiVars, clientVars, backendVars>>

\* Promise.all resolves: the parts are checked and attempt 0 calls the provider.
FilesEncoded ==
  /\ pc = "encoding"
  /\ LET fileParts == [i \in 1..Len(files) |-> fileToGenerativePart(files[i])]
     IN IF FilePartsInvalid(fileParts)
        THEN /\ pc' = "thrown"
             /\ thrown' = Some(MapError("Failed to process files for analysis"))
             /\ events' = events
        ELSE /\ pc' = "calling"
             /\ thrown' = None
             /\ events' = Append(events, [op |-> "generateContent", arg |-> 0])
  /\ UNCHANGED <<env, cachedClientKey, cachedAi, files, attempt, lastErr, result, attempts>>
  /\ UNCHANGED <<pdfVars, uiVars, clientVars, backendVars>>

\* The catch block of the retry loop, entered with the caught error's message.
AttemptFailed(msg) ==
  /\ lastErr' = Some(msg)
  /\ attempts' = Append(attempts, [ok |-> FALSE, message |-> msg])
  /\ IF ShouldRetry(msg, attempt)
     THEN /\ pc' = "sleeping"
          /\ events' = Append(events, [op |-> "sleep", arg |-> BackoffMs(attempt)])
          /\ thrown' = None
     ELSE /\ pc' = "thrown"
          /\ thrown' = Some(MapError(msg))
          /\ events' = events
  /\ UNCHANGED <<env, cachedClientKey, cachedAi, files, attempt, result>>

\* generateContent rejects.
ProviderRejects(msg) ==
  /\ pc = "calling"
  /\ AttemptFailed(msg)
  /\ UNCHANGED <<pdfVars, uiVars, clientVars, backendVars>>

\* generateContent resolves with a response whose text is `text`.
ProviderResolves(text) ==
  /\ pc = "calling"
  /\ LET jsonText == IF text = None THEN "" ELSE Trim(text[1])
         cleanedJson == StripFences(jsonText)
         parsedResult == JSONParse(cleanedJson)
     IN IF jsonText = ""
        THEN AttemptFailed("Empty response from AI model.")
        ELSE IF ~parsedResult.ok
        THEN \E m \in SyntaxErrorMessages(cleanedJson) : AttemptFailed(m)
        ELSE /\ pc' = "returned"
             /\ result' = parsedResult.val
             /\ attempts' = Append(attempts, [ok |-> TRUE, message |-> text[1]])
             /\ UNCHANGED <<env, cachedClientKey, cachedAi, files, attempt, lastErr,
                            thrown, events>>
  /\ UNCHANGED <<pdfVars, uiVars, clientVars, backendVars>>

\* The backoff sleep ends: `continue`, attempt++, the next provider call.
BackoffDone ==
  /\ pc = "sleeping"
  /\ attempt + 1 < 3
  /\ attempt' = attempt + 1
  /\ pc' = "calling"
  /\ events' = Append(events, [op |-> "generateContent", arg |-> attempt + 1])
  /\ UNCHANGED <<env, cachedClientKey, cachedAi, files, lastErr, result, thrown, attempts>>
  /\ UNCHANGED <<pdfVars, uiVars, clientVars, backendVars>>

\* Between calls the configuration changes (a key is stored, removed, rotated).
SetEnv(e) ==
  /\ ~InFlight
  /\ e # env
  /\ env' = e
  /\ pc' = "idle"
  /\ files' = <<>>
  /\ attempt' = 0
  /\ lastErr' = None
  /\ result' = None
  /\ thrown' = None
  /\ events' = <<>>
  /\ attempts' = <<>>
  /\ UNCHANGED <<cachedClientKey, cachedAi>>
  /\ UNCHANGED <<pdfVars, uiVars, clientVars, backendVars>>

GeminiInit ==
  /\ env \in EnvInputs
  /\ cachedClientKey = None
  /\ cachedAi = None
  /\ pc = "idle"
  /\ files = <<>>
  /\ attempt = 0
  /\ lastErr = None
  /\ result = None
  /\ thrown = None
  /\ events = <<>>
  /\ attempts = <<>>

\* The outer catch on its own.  The messages it is entered with are made of at
\* most MaxFragments of these fragments, joined by blanks.
MaxFragments == 2

Fragments ==
  <<"API key", "api key", "Quota", "rate", "429", "Unsupported", "MIME",
    "no pages", "No Pages", "failed">>

RECURSIVE JoinFragments(_)
JoinFragments(ks) ==
  IF Len(ks) = 1 THEN Fragments[ks[1]]
  ELSE Fragments[ks[1]] \o " " \o JoinFragments(Tail(ks))

CaughtMessages ==
  {JoinFragments(ks) : ks \in UNION {[1..n -> 1..Len(Fragments)] : n \in 1..MaxFragments}}

\* catch (error) { ... throw new Error(...) } entered with the message in lastErr.
OuterCatch ==
  /\ pc = "caught"
  /\ pc' = "thrown"
  /\ thrown' = Some(MapError(lastErr[1]))
  /\ UNCHANGED <<env, cachedClientKey, cachedAi, files, attempt, lastErr, result,
                 events, attempts>>
  /\ UNCHANGED <<pdfVars, uiVars, clientVars, backendVars>>

CatchInit ==
  /\ env = NoKeys
  /\ cachedClientKey = None
  /\ cachedAi = None
  /\ pc = "caught"
  /\ files = <<>>
  /\ attempt = 0
  /\ lastErr \in {Some(m) : m \in CaughtMessages}
  /\ result = None
  /\ thrown = None
  /\ events = <<>>
  /\ attempts = <<>>

\* The most calls of getAiClient a behaviour of SpecClient makes.
MaxClientCalls == 3

\* One call of the exported getAiClient() on its own.
GetAiClient ==
  /\ pc = "idle"
  /\ clientCalls < MaxClientCalls
  /\ LET c == getAiClient(env, cachedClientKey, cachedAi)
         serial == IF c.created THEN clientsCreated + 1 ELSE cachedSerial
     IN /\ clientCalls' = clientCalls + 1
        /\ cachedClientKey' = c.cachedClientKey
        /\ cachedAi' = c.cachedAi
        /\ clientsCreated' = IF c.created THEN clientsCreated + 1 ELSE clientsCreated
        /\ cachedSerial' = serial
        /\ returnedClient' = IF c.threw THEN None
                             ELSE Some([client |-> c.cachedAi[1], serial |-> serial])
  /\ UNCHANGED <<env, pc, files, attempt, lastErr, result, thrown, events, attempts>>
  /\ UNCHANGED <<pdfVars, uiVars, backendVars>>

ClientInit ==
  /\ clientCalls = 0
  /\ clientsCreated = 0
  /\ cachedSerial = 0
  /\ returnedClient = None

ClientNext ==
  \/ GetAiClient
  \/ \E e \in EnvInputs : SetEnv(e)

GeminiNext ==
  \/ \E arg \in AnalyzeArgs : AnalyzeDocument(arg)
  \/ FilesEncoded
  \/ \E msg \in ProviderErrors : ProviderRejects(msg)
  \/ \E text \in ResponseTexts : ProviderResolves(text)
  \/ BackoffDone
  \/ \E e \in EnvInputs : SetEnv(e)

(***************************************************************************)
(* utils/pdfPasswordHandler.                                               *)
(***************************************************************************)
\* The most pages a document of the inputs has.
MaxPdfPages == 11

\* Math.min(numPages, 10)
PageCap == 10

Min(a, b) == IF a <= b THEN a ELSE b

\* A mutation of the page limit: every page is rendered.
MaxPagesUncapped(numPages) == numPages

\* const maxPages = Math.min(numPages, 10)
MaxPages(numPages) == Min(numPages, PageCap)

(***************************************************************************)
(* pdf.js as the two functions see it.  A document is encrypted with a     *)
(* password or not; getDocument rejects with a PasswordException when the  *)
(* password it is given does not open the document, or resolves with a     *)
(* document whose pages then reject with it; any await can also fail for   *)
(* a reason of its own.  An error is its name, code and message, "" where  *)
(* the property is absent.                                                 *)
(***************************************************************************)
NoPasswordGiven ==
  [name |-> "PasswordException", code |-> "1", message |-> "No password given"]

IncorrectPassword ==
  [name |-> "PasswordException", code |-> "2", message |-> "Incorrect Password"]

InvalidPdf ==
  [name |-> "InvalidPDFException", code |-> "", message |-> "Invalid PDF structure."]

WorkerFailed ==
  [name |-> "Error", code |-> "", message |-> "Setting up fake worker failed"]

NotReadable ==
  [name |-> "NotReadableError", code |-> "", message |-> "The file could not be read"]

RenderFailed ==
  [name |-> "RenderingCancelledException", code |-> "", message |-> ""]

Opens(file, pw) == file.password = None \/ pw = file.password

PasswordError(pw) == IF pw = None THEN NoPasswordGiven ELSE IncorrectPassword

\* What getDocument({data, password: pw}).promise can settle to.
GetDocumentOutcomes(file, pw) ==
  IF file.corrupt
  THEN {[ok |-> FALSE, error |-> InvalidPdf]}
  ELSE {[ok |-> FALSE, error |-> WorkerFailed]}
       \cup IF Opens(file, pw)
            THEN {[ok |-> TRUE, doc |-> [numPages |-> file.numPages, locked |-> FALSE]]}
            ELSE {[ok |-> FALSE, error |-> PasswordError(pw)],
                  [ok |-> TRUE, doc |-> [numPages |-> file.numPages, locked |-> TRUE]]}

\* What pdf.getPage(n) can settle to.
GetPageOutcomes(doc, pw) ==
  IF doc.locked
  THEN {[ok |-> FALSE, error |-> PasswordError(pw)]}
  ELSE {[ok |-> TRUE], [ok |-> FALSE, error |-> InvalidPdf]}

(***************************************************************************)
(* isPasswordProtected: what each of its exits gives the caller.           *)
(***************************************************************************)
Return(v) == [kind |-> "return", value |-> v, message |-> ""]

Throw(m) == [kind |-> "throw", value |-> FALSE, message |-> m]

\* getPage(1) resolved
onPageLoaded == Return(FALSE)

\* catch (pageError)
onPageError(pageError) ==
  LET errorName == pageError.name
      errorMessage == ToLowerCase(pageError.message)
  IN IF \/ errorName = "PasswordException"
        \/ errorName = "PasswordResponses"
        \/ Includes(errorMessage, "password")
        \/ Includes(errorMessage, "encrypted")
        \/ Includes(errorMessage, "needs password")
        \/ Includes(errorMessage, "password required")
     THEN Return(TRUE)
     ELSE Return(FALSE)

\* catch (error) around loadingTask.promise
onLoadError(error) ==
  LET errorName == error.name
      errorMessage == ToLowerCase(error.message)
      errorCode == error.code
  IN IF \/ errorName = "PasswordException"
        \/ errorName = "PasswordResponses"
        \/ errorCode = "PasswordException"
        \/ Includes(errorMessage, "password")
        \/ Includes(errorMessage, "encrypted")
        \/ Includes(errorMessage, "needs password")
        \/ Includes(errorMessage, "password required")
        \/ Includes(errorMessage, "incorrect password")
     THEN Return(TRUE)
     ELSE Return(FALSE)

\* Mutations of the outermost catch: it rethrows; it answers true.
onProbeErrorRethrowing(error) == Throw(error.message)

onProbeErrorAssumingProtected(error) == Return(TRUE)

\* The outermost catch, reached when file.arrayBuffer() rejects.
onProbeError(error) == Return(FALSE)

(***************************************************************************)
(* Inputs of the two functions.                                            *)
(***************************************************************************)
PdfInputs ==
  {[name |-> "deed.pdf", password |-> pw, numPages |-> n, corrupt |-> FALSE] :
     pw \in {None, Some("secret")}, n \in 1..MaxPdfPages}
  \cup {[name |-> "torn.pdf", password |-> None, numPages |-> 1, corrupt |-> TRUE]}

PasswordInputs == {"secret", "guess"}

\* The blobs canvas.toBlob can hand over: none, an empty one, a PNG.
BlobInputs == {None, Some([size |-> 0]), Some([size |-> 4096])}

PdfBusy == pdfPc \in {"reading", "opening", "page", "rendering"}

\* The settled state of a call of either function.
PdfSettle(outcome) ==
  /\ pdfPc' = IF outcome.kind = "return" THEN "returned" ELSE "thrown"
  /\ pdfReturned' = IF outcome.kind = "return" THEN Some(outcome.value) ELSE None
  /\ pdfThrown' = IF outcome.kind = "throw" THEN Some(outcome.message) ELSE None

(***************************************************************************)
(* isPasswordProtected(file)                                               *)
(***************************************************************************)
IsPasswordProtected(file) ==
  /\ ~PdfBusy
  /\ pdfCall' = "isPasswordProtected"
  /\ pdfPc' = "reading"
  /\ pdfFile' = Some(file)
  /\ password' = None
  /\ pdfDocument' = None
  /\ pageNum' = 0
  /\ imageFiles' = <<>>
  /\ skipped' = <<>>
  /\ pdfError' = None
  /\ pdfCaughtAt' = "none"
  /\ pdfReturned' = None
  /\ pdfThrown' = None
  /\ UNCHANGED <<geminiVars, uiVars, clientVars, backendVars>>

\* file.arrayBuffer() resolves: getDocument is called without a password.
ProbeBufferRead ==
  /\ pdfCall = "isPasswordProtected"
  /\ pdfPc = "reading"
  /\ pdfPc' = "opening"
  /\ UNCHANGED <<pdfCall, pdfFile, password, pdfDocument, pageNum, imageFiles,
                 skipped, pdfError, pdfCaughtAt, pdfReturned, pdfThrown>>
  /\ UNCHANGED <<geminiVars, uiVars, clientVars, backendVars>>

\* file.arrayBuffer() rejects: the outermost catch.
ProbeBufferFailed ==
  /\ pdfCall = "isPasswordProtected"
  /\ pdfPc = "reading"
  /\ pdfError' = Some(NotReadable)
  /\ pdfCaughtAt' = "read"
  /\ PdfSettle(onProbeError(NotReadable))
  /\ UNCHANGED <<pdfCall, pdfFile, password, pdfDocument, pageNum, imageFiles, skipped>>
  /\ UNCHANGED <<geminiVars, uiVars, clientVars, backendVars>>

\* loadingTask.promise settles.
ProbeOpened ==
  /\ pdfCall = "isPasswordProtected"
  /\ pdfPc = "opening"
  /\ \E o \in GetDocumentOutcomes(pdfFile[1], None) :
     IF o.ok
     THEN /\ pdfDocument' = Some(o.doc)
          /\ pdfPc' = "page"
          /\ UNCHANGED <<pdfError, pdfCaughtAt, pdfReturned, pdfThrown>>
     ELSE /\ pdfError' = Some(o.error)
          /\ pdfCaughtAt' = "open"
          /\ PdfSettle(onLoadError(o.error))
          /\ UNCHANGED pdfDocument
  /\ UNCHANGED <<pdfCall, pdfFile, password, pageNum, imageFiles, skipped>>
  /\ UNCHANGED <<geminiVars, uiVars, clientVars, backendVars>>

\* pdf.getPage(1) settles.
ProbePage ==
  /\ pdfCall = "isPasswordProtected"
  /\ pdfPc = "page"
  /\ \E o \in GetPageOutcomes(pdfDocument[1], None) :
     IF o.ok
     THEN /\ PdfSettle(onPageLoaded)
          /\ UNCHANGED <<pdfError, pdfCaughtAt>>
     ELSE /\ pdfError' = Some(o.error)
          /\ pdfCaughtAt' = "page"
          /\ PdfSettle(onPageError(o.error))
  /\ UNCHANGED <<pdfCall, pdfFile, password, pdfDocument, pageNum, imageFiles, skipped>>
  /\ UNCHANGED <<geminiVars, uiVars, clientVars, backendVars>>

(***************************************************************************)
(* convertPdfToImages(file, password)                                      *)
(***************************************************************************)
InvalidPasswordMessage == "Invalid password. Please check your password and try again."

\* A mutation of the catch block: the error's name is not looked at.
convertCatchByMessage(error) ==
  IF \/ Includes(error.message, "password")
     \/ Includes(error.message, "Incorrect password")
  THEN InvalidPasswordMessage
  ELSE "Failed to process PDF: "
         \o (IF error.message # "" THEN error.message ELSE "Unknown error")

\* The catch block of convertPdfToImages: the message of the Error it throws.
convertCatch(error) ==
  IF \/ error.name = "PasswordException"
     \/ Includes(error.message, "password")
     \/ Includes(error.message, "Incorrect password")
  THEN InvalidPasswordMessage
  ELSE "Failed to process PDF: "
         \o (IF error.message # "" THEN error.message ELSE "Unknown error")

\* A mutation of the blob test: an empty blob is kept.
BlobRejectedOnlyIfNull(blob) == blob = None

\* !blob || blob.size === 0
BlobRejected(blob) == blob = None \/ blob[1].size = 0

\* new File([blob], `page-${pageNum}.png`, { type: 'image/png' })
PageImage(n, blob) ==
  [name |-> "page-" \o ToString(n) \o ".png", type |-> "image/png", size |-> blob[1].size]

ConvertPdfToImages(file, pw) ==
  /\ ~PdfBusy
  /\ pdfCall' = "convertPdfToImages"
  /\ pdfPc' = "reading"
  /\ pdfFile' = Some(file)
  /\ password' = Some(pw)
  /\ pdfDocument' = None
  /\ pageNum' = 0
  /\ imageFiles' = <<>>
  /\ skipped' = <<>>
  /\ pdfError' = None
  /\ pdfCaughtAt' = "none"
  /\ pdfReturned' = None
  /\ pdfThrown' = None
  /\ UNCHANGED <<geminiVars, uiVars, clientVars, backendVars>>

\* An await of the try block rejects with `error`, or the block throws it.
ConvertFailed(error, at) ==
  /\ pdfError' = Some(error)
  /\ pdfCaughtAt' = at
  /\ PdfSettle(Throw(convertCatch(error)))

ConvertBufferRead ==
  /\ pdfCall = "convertPdfToImages"
  /\ pdfPc = "reading"
  /\ pdfPc' = "opening"
  /\ UNCHANGED <<pdfCall, pdfFile, password, pdfDocument, pageNum, imageFiles,
                 skipped, pdfError, pdfCaughtAt, pdfReturned, pdfThrown>>
  /\ UNCHANGED <<geminiVars, uiVars, clientVars, backendVars>>

ConvertBufferFailed ==
  /\ pdfCall = "convertPdfToImages"
  /\ pdfPc = "reading"
  /\ ConvertFailed(NotReadable, "read")
  /\ UNCHANGED <<pdfCall, pdfFile, password, pdfDocument, pageNum, imageFiles, skipped>>
  /\ UNCHANGED <<geminiVars, uiVars, clientVars, backendVars>>

\* getDocument({data, password}).promise settles; the loop starts at page 1.
ConvertOpened ==
  /\ pdfCall = "convertPdfToImages"
  /\ pdfPc = "opening"
  /\ \E o \in GetDocumentOutcomes(pdfFile[1], password) :
     IF o.ok
     THEN /\ pdfDocument' = Some(o.doc)
          /\ pageNum' = 1
          /\ pdfPc' = "rendering"
          /\ UNCHANGED <<pdfError, pdfCaughtAt, pdfReturned, pdfThrown>>
     ELSE /\ ConvertFailed(o.error, "open")
          /\ UNCHANGED <<pdfDocument, pageNum>>
  /\ UNCHANGED <<pdfCall, pdfFile, password, imageFiles, skipped>>
  /\ UNCHANGED <<geminiVars, uiVars, clientVars, backendVars>>

\* The loop's exit once page pageNum is dealt with and `images` is the list:
\* the next iteration, or the end of the loop with its test of the list.
ConvertNext(images) ==
  IF pageNum + 1 <= MaxPages(pdfDocument[1].numPages)
  THEN /\ pageNum' = pageNum + 1
       /\ UNCHANGED <<pdfPc, pdfError, pdfCaughtAt, pdfReturned, pdfThrown>>
  ELSE /\ UNCHANGED pageNum
       /\ IF Len(images) = 0
          THEN ConvertFailed([name |-> "Error", code |-> "",
                              message |-> "Failed to convert PDF pages to images"],
                             "loop")
          ELSE /\ PdfSettle(Return(TRUE))
               /\ UNCHANGED <<pdfError, pdfCaughtAt>>

\* One iteration for page pageNum in which no await rejects: getContext gives
\* a context or null, and toBlob gives `blob`.
ConvertPage(hasContext, blob) ==
  /\ pdfCall = "convertPdfToImages"
  /\ pdfPc = "rendering"
  /\ pageNum <= MaxPages(pdfDocument[1].numPages)
  /\ [ok |-> TRUE] \in GetPageOutcomes(pdfDocument[1], password)
  /\ IF ~hasContext \/ BlobRejected(blob)
     THEN /\ skipped' = Append(skipped, pageNum)
          /\ UNCHANGED imageFiles
          /\ ConvertNext(imageFiles)
     ELSE /\ imageFiles' = Append(imageFiles, PageImage(pageNum, blob))
          /\ UNCHANGED skipped
          /\ ConvertNext(Append(imageFiles, PageImage(pageNum, blob)))
  /\ UNCHANGED <<pdfCall, pdfFile, password, pdfDocument>>
  /\ UNCHANGED <<geminiVars, uiVars, clientVars, backendVars>>

\* pdfDocument.getPage(pageNum) rejects.
ConvertPageFailed ==
  /\ pdfCall = "convertPdfToImages"
  /\ pdfPc = "rendering"
  /\ \E o \in GetPageOutcomes(pdfDocument[1], password) :
       ~o.ok /\ ConvertFailed(o.error, "getPage")
  /\ UNCHANGED <<pdfCall, pdfFile, password, pdfDocument, pageNum, imageFiles, skipped>>
  /\ UNCHANGED <<geminiVars, uiVars, clientVars, backendVars>>

\* page.render(...).promise rejects.
ConvertRenderFailed ==
  /\ pdfCall = "convertPdfToImages"
  /\ pdfPc = "rendering"
  /\ [ok |-> TRUE] \in GetPageOutcomes(pdfDocument[1], password)
  /\ ConvertFailed(RenderFailed, "render")
  /\ UNCHANGED <<pdfCall, pdfFile, password, pdfDocument, pageNum, imageFiles, skipped>>
  /\ UNCHANGED <<geminiVars, uiVars, clientVars, backendVars>>

PdfInit ==
  /\ pdfCall = "none"
  /\ pdfPc = "idle"
  /\ pdfFile = None
  /\ password = None
  /\ pdfDocument = None
  /\ pageNum = 0
  /\ imageFiles = <<>>
  /\ skipped = <<>>
  /\ pdfError = None
  /\ pdfCaughtAt = "none"
  /\ pdfReturned = None
  /\ pdfThrown = None

PdfNext ==
  \/ \E file \in PdfInputs : IsPasswordProtected(file)
  \/ ProbeBufferRead
  \/ ProbeBufferFailed
  \/ ProbeOpened
  \/ ProbePage
  \/ \E file \in PdfInputs, pw \in PasswordInputs : ConvertPdfToImages(file, pw)
  \/ ConvertBufferRead
  \/ ConvertBufferFailed
  \/ ConvertOpened
  \/ \E hasContext \in BOOLEAN, blob \in BlobInputs : ConvertPage(hasContext, blob)
  \/ ConvertPageFailed
  \/ ConvertRenderFailed

(***************************************************************************)
(* DocumentAnalysis: the component's state and its invocations of          *)
(* handleAnalyzeWithFile.                                                  *)
(***************************************************************************)
MaxInvocations == 2

Slots == 1..MaxInvocations

UserId == "user-1"

LanguageName == "English"

AllowedTypes ==
  { "application/pdf", "application/msword",
    "application/vnd.openxmlformats-officedocument.wordprocessingml.document",
    "image/png", "image/jpeg", "image/webp" }

MaxBytes == 12 * 1024 * 1024

UnsupportedTypeError == "Unsupported file type. Please upload PDF, DOCX, PNG, or JPG."

FileTooLargeError == "File too large. Please upload a file smaller than 12MB."

\* The files a user can hand over: an encrypted PDF, a plain one, a text file,
\* an oversized image; and the JPEG a camera capture makes.
DeedPdf ==
  [name |-> "deed.pdf", type |-> "application/pdf", size |-> 2048,
   password |-> Some("secret"), numPages |-> 2, corrupt |-> FALSE]

PlanPdf ==
  [name |-> "plan.pdf", type |-> "application/pdf", size |-> MaxBytes,
   password |-> None, numPages |-> 1, corrupt |-> FALSE]

NotesTxt ==
  [name |-> "notes.txt", type |-> "text/plain", size |-> 512,
   password |-> None, numPages |-> 0, corrupt |-> FALSE]

HugePng ==
  [name |-> "scan.png", type |-> "image/png", size |-> MaxBytes + 1,
   password |-> None, numPages |-> 0, corrupt |-> FALSE]

CameraJpeg ==
  [name |-> "camera-document-1700000000000.jpg", type |-> "image/jpeg",
   size |-> 1024, password |-> None, numPages |-> 0, corrupt |-> FALSE]

SelectableFiles == {DeedPdf, PlanPdf, NotesTxt, HugePng}

PdfFiles == {f \in SelectableFiles : f.type = "application/pdf"}

\* What can be typed into the password field, and what is then submitted.
TypedPasswords == {"", " ", "guess", " secret"}

SubmittedPasswords == {Trim(text) : text \in TypedPasswords}

\* How an awaited call settles: with a value, or with something thrown that
\* is an Error or is not.
Resolved(v) == [ok |-> TRUE, value |-> v, isError |-> FALSE, message |-> ""]

Rejected(isError, m) == [ok |-> FALSE, value |-> None, isError |-> isError, message |-> m]

Settled(outcome) ==
  IF outcome.kind = "return" THEN Resolved(outcome.value)
  ELSE Rejected(TRUE, outcome.message)

\* isPasswordProtected(file), by the exits of the function above.
ProbeOutcomes ==
  [file \in PdfFiles |->
  {Settled(onProbeError(NotReadable))}
  \cup UNION { IF o.ok
               THEN { IF p.ok THEN Settled(onPageLoaded) ELSE Settled(onPageError(p.error)) :
                        p \in GetPageOutcomes(o.doc, None) }
               ELSE { Settled(onLoadError(o.error)) } :
               o \in GetDocumentOutcomes(file, None) }]

\* convertPdfToImages(file, pw): every page of an opened document is
\* rasterized, or the call throws what its catch block makes of a failure.
ConvertOutcomes ==
  [file \in PdfFiles, pw \in SubmittedPasswords |->
  {Rejected(TRUE, convertCatch(NotReadable))}
  \cup UNION { IF ~o.ok THEN { Rejected(TRUE, convertCatch(o.error)) }
               ELSE IF o.doc.locked
               THEN { Rejected(TRUE, convertCatch(p.error)) :
                        p \in GetPageOutcomes(o.doc, Some(pw)) }
               ELSE { Resolved([k \in 1..MaxPages(o.doc.numPages) |->
                                  PageImage(k, Some([size |-> 4096]))]),
                      Rejected(TRUE, convertCatch(RenderFailed)) } :
               o \in GetDocumentOutcomes(file, Some(pw)) }]

AnalysisValue ==
  [summary |-> "Sale deed of a flat", pros |-> <<"Clear title">>,
   cons |-> <<"No penalty clause">>, potentialLoopholes |-> <<>>,
   potentialChallenges |-> <<"Stamp duty unpaid">>]

\* analyzeDocument: a result, or one of the messages of its error mapping.
AnalyzeOutcomes ==
  {Resolved(AnalysisValue)} \cup {Rejected(TRUE, m) : m \in TaxonomyMessages}

\* file.name.split('.').pop()
RECURSIVE FileExt(_, _)
FileExt(name, i) ==
  IF i = 0 THEN name
  ELSE IF CharAt(name, i) = "." THEN SubSeq(name, i + 1, Len(name))
  ELSE FileExt(name, i - 1)

\* documentService.uploadFile: the public URL, or the storage error thrown.
UploadOutcomes(file, userId) ==
  { Resolved("https://storage/documents/" \o userId \o "/1700000000000."
               \o FileExt(file.name, Len(file.name))),
    Rejected(TRUE, "Bucket not found"),
    Rejected(TRUE, "Invalid API key") }

\* documentService.saveDocument: the row, or the database error thrown,
\* which older client libraries hand over as a plain object.
SaveOutcomes(documentData) ==
  { Resolved(documentData),
    Rejected(FALSE, "new row violates row-level security policy") }

\* err instanceof Error ? err.message : fallback
ErrorMessage(outcome, fallback) ==
  IF outcome.isError THEN outcome.message ELSE fallback

\* One invocation of handleAnalyzeWithFile: where it is suspended, its
\* arguments, the calls it has made, the analysis it holds, the message its
\* catch block holds, and the way it ended.
IdleInvocation ==
  [pc |-> "idle", file |-> None, providedPassword |-> None, calls |-> <<>>,
   result |-> None, caught |-> None, exit |-> "none"]

\* A call awaited, and what it settled to once it has.
Call(op, args) == [op |-> op, args |-> args, settled |-> None]

LastCall(r) == r.calls[Len(r.calls)]

Settle(r, outcome) == [r EXCEPT !.calls[Len(r.calls)].settled = Some(outcome)]

InFlightAt(i) == invocations[i].pc \notin {"idle", "done"}

FreeSlots == {i \in Slots : ~InFlightAt(i)}

\* The eight useState values after an update.
Ui(loading, err, analysis, saved, prompt, pw, pwError, pending) ==
  /\ isLoading' = loading
  /\ errorState' = err
  /\ analysisResult' = analysis
  /\ saveSuccess' = saved
  /\ showPasswordPrompt' = prompt
  /\ passwordState' = pw
  /\ passwordError' = pwError
  /\ pendingFile' = pending

Invocation(i, r) == invocations' = [invocations EXCEPT ![i] = r]

\* A new invocation takes slot i; the records of ended ones are dropped.
NewInvocation(i, r) ==
  invocations' = [s \in Slots |-> IF s = i THEN r
                                  ELSE IF InFlightAt(s) THEN invocations[s]
                                  ELSE IdleInvocation]

Calling(r, at, op, args) ==
  [r EXCEPT !.pc = at, !.calls = Append(@, Call(op, args))]

Done(r, exit) == [r EXCEPT !.pc = "done", !.exit = exit]

Truthy(pw) == pw # None /\ pw[1] # ""

NeedsProbe(r) == r.file[1].type = "application/pdf" /\ ~Truthy(r.providedPassword)

\* Lines 326-330; pwError is what passwordError holds by then.
ResetForAnalysis(pwError) ==
  Ui(TRUE, None, None, FALSE, FALSE, passwordState, pwError, pendingFile)

\* The call the try block starts with.
StartAnalysis(r) ==
  IF r.file[1].type = "application/pdf" /\ Truthy(r.providedPassword)
  THEN Calling(r, "converting", "convertPdfToImages",
               <<r.file[1], r.providedPassword[1]>>)
  ELSE Calling(r, "analyzing", "analyzeDocument", <<r.file[1], LanguageName>>)

\* A mutation of the validation: a file of exactly the limit is rejected too.
HandleAnalyzeWithFileBelowLimit(file, providedPassword, pwError) ==
  /\ FreeSlots # {}
  /\ LET i == CHOOSE s \in FreeSlots : \A t \in FreeSlots : s <= t
         r == [IdleInvocation EXCEPT !.file = Some(file),
                                     !.providedPassword = providedPassword]
     IN IF file.type \notin AllowedTypes
        THEN /\ Ui(isLoading, Some(UnsupportedTypeError), analysisResult, saveSuccess,
                   showPasswordPrompt, passwordState, pwError, pendingFile)
             /\ NewInvocation(i, Done(r, "rejected"))
        ELSE IF file.size >= MaxBytes
        THEN /\ Ui(isLoading, Some(FileTooLargeError), analysisResult, saveSuccess,
                   showPasswordPrompt, passwordState, pwError, pendingFile)
             /\ NewInvocation(i, Done(r, "rejected"))
        ELSE IF NeedsProbe(r)
        THEN /\ Ui(TRUE, errorState, analysisResult, saveSuccess,
                   showPasswordPrompt, passwordState, pwError, pendingFile)
             /\ NewInvocation(i, Calling(r, "probing", "isPasswordProtected", <<file>>))
        ELSE /\ ResetForAnalysis(pwError)
             /\ NewInvocation(i, StartAnalysis(r))

\* handleAnalyzeWithFile(file, providedPassword) up to its first await or its
\* early return.
HandleAnalyzeWithFile(file, providedPassword, pwError) ==
  /\ FreeSlots # {}
  /\ LET i == CHOOSE s \in FreeSlots : \A t \in FreeSlots : s <= t
         r == [IdleInvocation EXCEPT !.file = Some(file),
                                     !.providedPassword = providedPassword]
     IN IF file.type \notin AllowedTypes
        THEN /\ Ui(isLoading, Some(UnsupportedTypeError), analysisResult, saveSuccess,
                   showPasswordPrompt, passwordState, pwError, pendingFile)
             /\ NewInvocation(i, Done(r, "rejected"))
        ELSE IF file.size > MaxBytes
        THEN /\ Ui(isLoading, Some(FileTooLargeError), analysisResult, saveSuccess,
                   showPasswordPrompt, passwordState, pwError, pendingFile)
             /\ NewInvocation(i, Done(r, "rejected"))
        ELSE IF NeedsProbe(r)
        THEN /\ Ui(TRUE, errorState, analysisResult, saveSuccess,
                   showPasswordPrompt, passwordState, pwError, pendingFile)
             /\ NewInvocation(i, Calling(r, "probing", "isPasswordProtected", <<file>>))
        ELSE /\ ResetForAnalysis(pwError)
             /\ NewInvocation(i, StartAnalysis(r))

\* handleAnalyze with `file` selected; its button is disabled while loading.
HandleAnalyze(file) ==
  /\ ~isLoading
  /\ HandleAnalyzeWithFile(file, None, passwordError)
  /\ UNCHANGED <<geminiVars, pdfVars, clientVars, backendVars>>

\* The timer capturePhoto sets fires.
CapturePhoto ==
  /\ HandleAnalyzeWithFile(CameraJpeg, None, passwordError)
  /\ UNCHANGED <<geminiVars, pdfVars, clientVars, backendVars>>

\* onChange of the password field; the field is disabled while loading.
SetPassword(text) ==
  /\ showPasswordPrompt
  /\ ~isLoading
  /\ Ui(isLoading, errorState, analysisResult, saveSuccess, showPasswordPrompt,
        text, None, pendingFile)
  /\ UNCHANGED invocations
  /\ UNCHANGED <<geminiVars, pdfVars, clientVars, backendVars>>

\* A mutation of the submit: the password is tested and passed on untrimmed.
HandlePasswordSubmitUntrimmed ==
  /\ showPasswordPrompt
  /\ ~isLoading
  /\ IF pendingFile = None \/ passwordState = ""
     THEN /\ Ui(isLoading, errorState, analysisResult, saveSuccess,
                showPasswordPrompt, passwordState, Some("Please enter a password"),
                pendingFile)
          /\ UNCHANGED invocations
     ELSE HandleAnalyzeWithFile(pendingFile[1], Some(passwordState), None)
  /\ UNCHANGED <<geminiVars, pdfVars, clientVars, backendVars>>

\* The form of the prompt is submitted.
HandlePasswordSubmit ==
  /\ showPasswordPrompt
  /\ ~isLoading
  /\ IF pendingFile = None \/ Trim(passwordState) = ""
     THEN /\ Ui(isLoading, errorState, analysisResult, saveSuccess,
                showPasswordPrompt, passwordState, Some("Please enter a password"),
                pendingFile)
          /\ UNCHANGED invocations
     ELSE HandleAnalyzeWithFile(pendingFile[1], Some(Trim(passwordState)), None)
  /\ UNCHANGED <<geminiVars, pdfVars, clientVars, backendVars>>

\* The prompt's Cancel or close button.
HandlePasswordCancel ==
  /\ showPasswordPrompt
  /\ Ui(FALSE, errorState, analysisResult, saveSuccess, FALSE, "", None, None)
  /\ UNCHANGED invocations
  /\ UNCHANGED <<geminiVars, pdfVars, clientVars, backendVars>>

\* A mutation of the prompt: the file is not held for the submit.
ShowPromptWithoutFile(i, r) ==
  /\ Ui(FALSE, errorState, analysisResult, saveSuccess, TRUE, "", None, pendingFile)
  /\ Invocation(i, Done(r, "prompt"))

\* The prompt is put up for the invocation's file and the invocation returns.
ShowPrompt(i, r) ==
  /\ Ui(FALSE, errorState, analysisResult, saveSuccess, TRUE, "", None, r.file)
  /\ Invocation(i, Done(r, "prompt"))

\* A mutation of lines 343-346: the message goes to the general error state.
ShowPasswordErrorAsError(i, r, errorMessage) ==
  /\ Ui(FALSE, Some(errorMessage), analysisResult, saveSuccess, showPasswordPrompt,
        passwordState, passwordError, pendingFile)
  /\ Invocation(i, Done([r EXCEPT !.caught = Some(errorMessage)], "reprompt"))

\* lines 343-346: the prompt comes back with the message under its field.
ShowPasswordError(i, r, errorMessage) ==
  /\ Ui(FALSE, errorState, analysisResult, saveSuccess, TRUE, passwordState,
        Some(errorMessage), pendingFile)
  /\ Invocation(i, Done([r EXCEPT !.caught = Some(errorMessage)], "reprompt"))

\* A mutation of the end of the catch block: every message is shown.
ShowErrorUnfiltered(i, r, message) ==
  /\ Ui(FALSE, Some(message), analysisResult, saveSuccess, showPasswordPrompt,
        passwordState, passwordError, pendingFile)
  /\ Invocation(i, Done([r EXCEPT !.caught = Some(message)], "error"))

\* The end of the catch block, then the finally block.
ShowError(i, r, message) ==
  /\ Ui(FALSE,
        IF /\ ~Includes(message, "API key")
           /\ ~Includes(message, "Missing API key")
           /\ message # "SERVICE_UNAVAILABLE"
        THEN Some(message) ELSE None,
        analysisResult, saveSuccess, showPasswordPrompt, passwordState,
        passwordError, pendingFile)
  /\ Invocation(i, Done([r EXCEPT !.caught = Some(message)], "error"))

\* catch (err) of the try block, up to its await or to the end.
Catch(i, r, message) ==
  IF NeedsProbe(r)
  THEN /\ Invocation(i, Calling([r EXCEPT !.caught = Some(message)], "rechecking",
                                "isPasswordProtected", <<r.file[1]>>))
       /\ UNCHANGED <<isLoading, errorState, analysisResult, saveSuccess,
                      showPasswordPrompt, passwordState, passwordError, pendingFile>>
  ELSE ShowError(i, r, message)

\* await isPasswordProtected(file) of line 304 settles.
ProbeSettled(i) ==
  /\ invocations[i].pc = "probing"
  /\ \E o \in ProbeOutcomes[invocations[i].file[1]] :
       LET r == Settle(invocations[i], o)
       IN IF o.ok /\ o.value
          THEN ShowPrompt(i, r)
          ELSE /\ ResetForAnalysis(passwordError)
               /\ Invocation(i, StartAnalysis(r))
  /\ UNCHANGED <<geminiVars, pdfVars, clientVars, backendVars>>

\* await convertPdfToImages(file, providedPassword) settles.
ConvertSettled(i) ==
  /\ invocations[i].pc = "converting"
  /\ \E o \in ConvertOutcomes[invocations[i].file[1], invocations[i].providedPassword[1]] :
       LET r == Settle(invocations[i], o)
           errorMessage == ErrorMessage(o, "Failed to decrypt PDF.")
       IN IF o.ok
          THEN /\ Invocation(i, Calling(r, "analyzing", "analyzeDocument",
                                        <<o.value, LanguageName>>))
               /\ UNCHANGED <<isLoading, errorState, analysisResult, saveSuccess,
                              showPasswordPrompt, passwordState, passwordError,
                              pendingFile>>
          ELSE IF \/ Includes(errorMessage, "Invalid password")
                  \/ Includes(errorMessage, "password")
          THEN ShowPasswordError(i, r, errorMessage)
          ELSE Catch(i, r, ErrorMessage(o, "An unknown error occurred."))
  /\ UNCHANGED <<geminiVars, pdfVars, clientVars, backendVars>>

\* await analyzeDocument(filesToAnalyze, languageNames[language]) settles.
AnalyzeSettled(i) ==
  /\ invocations[i].pc = "analyzing"
  /\ \E o \in AnalyzeOutcomes :
       LET r == Settle(invocations[i], o)
       IN IF o.ok
          THEN /\ Ui(isLoading, errorState, Some(o.value), saveSuccess,
                     showPasswordPrompt, passwordState, passwordError, pendingFile)
               /\ Invocation(i, Calling([r EXCEPT !.result = Some(o.value)],
                                        "uploading", "uploadFile",
                                        <<r.file[1], UserId>>))
          ELSE Catch(i, r, ErrorMessage(o, "An unknown error occurred."))
  /\ UNCHANGED <<geminiVars, pdfVars, clientVars, backendVars>>

\* The argument of saveDocument.
DocumentData(file, fileUrl, analysis) ==
  [userId |-> UserId, fileName |-> file.name, fileType |-> file.type,
   fileSize |-> file.size, fileUrl |-> fileUrl, summary |-> analysis.summary,
   pros |-> analysis.pros, cons |-> analysis.cons,
   potentialLoopholes |-> analysis.potentialLoopholes,
   potentialChallenges |-> analysis.potentialChallenges]

\* await documentService.uploadFile(file, userId) settles.
UploadSettled(i) ==
  /\ invocations[i].pc = "uploading"
  /\ \E o \in UploadOutcomes(invocations[i].file[1], UserId) :
       LET r == Settle(invocations[i], o)
       IN IF o.ok
          THEN /\ Invocation(i, Calling(r, "saving", "saveDocument",
                                        <<DocumentData(r.file[1], o.value, r.result[1])>>))
               /\ UNCHANGED <<isLoading, errorState, analysisResult, saveSuccess,
                              showPasswordPrompt, passwordState, passwordError,
                              pendingFile>>
          ELSE Catch(i, r, ErrorMessage(o, "An unknown error occurred."))
  /\ UNCHANGED <<geminiVars, pdfVars, clientVars, backendVars>>

\* await documentService.saveDocument({...}) settles.
SaveSettled(i) ==
  /\ invocations[i].pc = "saving"
  /\ \E o \in SaveOutcomes(LastCall(invocations[i]).args[1]) :
       LET r == Settle(invocations[i], o)
       IN IF o.ok
          THEN /\ Ui(FALSE, errorState, analysisResult, TRUE, showPasswordPrompt,
                     "", passwordError, pendingFile)
               /\ Invocation(i, Done(r, "saved"))
          ELSE Catch(i, r, ErrorMessage(o, "An unknown error occurred."))
  /\ UNCHANGED <<geminiVars, pdfVars, clientVars, backendVars>>

\* await isPasswordProtected(file) of the catch block settles.
RecheckSettled(i) ==
  /\ invocations[i].pc = "rechecking"
  /\ \E o \in ProbeOutcomes[invocations[i].file[1]] :
       LET r == Settle(invocations[i], o)
       IN IF o.ok /\ o.value
          THEN ShowPrompt(i, r)
          ELSE ShowError(i, r, r.caught[1])
  /\ UNCHANGED <<geminiVars, pdfVars, clientVars, backendVars>>

UiInit ==
  /\ isLoading = FALSE
  /\ errorState = None
  /\ analysisResult = None
  /\ saveSuccess = FALSE
  /\ showPasswordPrompt = FALSE
  /\ passwordState = ""
  /\ passwordError = None
  /\ pendingFile = None
  /\ invocations = [i \in Slots |-> IdleInvocation]

UiNext ==
  \/ \E file \in SelectableFiles : HandleAnalyze(file)
  \/ CapturePhoto
  \/ \E text \in TypedPasswords : SetPassword(text)
  \/ HandlePasswordSubmit
  \/ HandlePasswordCancel
  \/ \E i \in Slots : ProbeSettled(i)
  \/ \E i \in Slots : ConvertSettled(i)
  \/ \E i \in Slots : AnalyzeSettled(i)
  \/ \E i \in Slots : UploadSettled(i)
  \/ \E i \in Slots : SaveSettled(i)
  \/ \E i \in Slots : RecheckSettled(i)

(***************************************************************************)
(* documentService.deleteDocument against the table and the bucket.        *)
(***************************************************************************)
\* String.prototype.indexOf(p, from), positions counted from 1; 0: not found.
RECURSIVE IndexOf(_, _, _)
IndexOf(s, p, from) ==
  IF from + Len(p) - 1 > Len(s) THEN 0
  ELSE IF SubSeq(s, from, from + Len(p) - 1) = p THEN from
  ELSE IndexOf(s, p, from + 1)

RECURSIVE SplitFrom(_, _, _)
SplitFrom(s, sep, from) ==
  LET i == IndexOf(s, sep, from)
  IN IF i = 0 THEN <<SubSeq(s, from, Len(s))>>
     ELSE <<SubSeq(s, from, i - 1)>> \o SplitFrom(s, sep, i + Len(sep))

\* String.prototype.split(sep) for a separator that is not empty
Split(s, sep) == SplitFrom(s, sep, 1)

\* supabase.storage.from('documents').getPublicUrl(fileName)
getPublicUrl(fileName) ==
  "https://proj.supabase.co/storage/v1/object/public/documents/" \o fileName

\* The rows of the table at the start: two documents with a stored file, one
\* saved without a URL, one whose URL points outside the bucket.
DocumentRows ==
  { [id |-> "d1", user_id |-> "u1", file_url |-> Some(getPublicUrl("u1/1700000000000.pdf"))],
    [id |-> "d2", user_id |-> "u1", file_url |-> None],
    [id |-> "d3", user_id |-> "u2", file_url |-> Some(getPublicUrl("u2/1700000000001.png"))],
    [id |-> "d4", user_id |-> "u2", file_url |-> Some("https://cdn.example.com/files/plan.pdf")] }

StoredObjects == {"u1/1700000000000.pdf", "u2/1700000000001.png"}

DocumentIds == {r.id : r \in DocumentRows}

UserIds == {r.user_id : r \in DocumentRows}

\* .eq('id', documentId).eq('user_id', userId)
Matching(documentId, userId) ==
  {r \in documents : r.id = documentId /\ r.user_id = userId}

\* The object the document's row points at when the call starts, if the bucket
\* holds it.
StoredFile(documentId, userId) ==
  {path \in bucket : \E r \in Matching(documentId, userId) :
                       r.file_url = Some(getPublicUrl(path))}

IdleDelete ==
  [pc |-> "idle", documentId |-> "", userId |-> "", doc |-> None, calls |-> <<>>,
   stored |-> {}, thrown |-> None, returned |-> None]

\* deleteDocument(documentId, userId) up to its first await.
DeleteDocument(documentId, userId) ==
  /\ delCall.pc \in {"idle", "returned", "thrown"}
  /\ delCall' = [IdleDelete EXCEPT !.pc = "selecting",
                                   !.documentId = documentId,
                                   !.userId = userId,
                                   !.stored = StoredFile(documentId, userId),
                                   !.calls = <<Call("select", <<documentId, userId>>)>>]
  /\ UNCHANGED <<documents, bucket>>
  /\ UNCHANGED <<analysisVars, chatVars, qaVars>>

\* .single() settles: data is the one row, or null with an error that is not
\* looked at (no row, or the request failed).  Then the delete is sent.
SelectSettled(failed) ==
  /\ delCall.pc = "selecting"
  /\ LET rows == Matching(delCall.documentId, delCall.userId)
         data == IF failed \/ rows = {} THEN None
                 ELSE Some([file_url |-> (CHOOSE r \in rows : TRUE).file_url])
         r == Settle(delCall, IF data = None THEN Rejected(FALSE, "PGRST116")
                              ELSE Resolved(data[1]))
     IN delCall' = [r EXCEPT !.pc = "deleting", !.doc = data,
                             !.calls = Append(@, Call("delete", <<delCall.documentId,
                                                                 delCall.userId>>))]
  /\ UNCHANGED <<documents, bucket>>
  /\ UNCHANGED <<analysisVars, chatVars, qaVars>>

\* doc?.file_url, and urlParts.length > 1
RemovablePath(doc) ==
  IF doc = None \/ doc[1].file_url = None \/ doc[1].file_url = Some("") THEN None
  ELSE LET urlParts == Split(doc[1].file_url[1], "/documents/")
       IN IF Len(urlParts) > 1 THEN Some(urlParts[2]) ELSE None

\* The delete settles: if (dbError) throw dbError; otherwise the row is gone
\* and the stored file, if the row named one in the bucket, is removed next.
DeleteSettled(dbError) ==
  /\ delCall.pc = "deleting"
  /\ LET r == Settle(delCall, IF dbError = None THEN Resolved(None)
                              ELSE Rejected(FALSE, dbError[1]))
         storagePath == RemovablePath(delCall.doc)
     IN IF dbError # None
        THEN /\ delCall' = [r EXCEPT !.pc = "thrown", !.thrown = dbError]
             /\ UNCHANGED documents
        ELSE /\ documents' = documents \ Matching(delCall.documentId, delCall.userId)
             /\ IF storagePath # None
                THEN delCall' = [r EXCEPT !.pc = "removing",
                                          !.calls = Append(@, Call("remove",
                                                                   <<storagePath[1]>>))]
                ELSE delCall' = [r EXCEPT !.pc = "returned",
                                          !.returned = Some([success |-> TRUE])]
  /\ UNCHANGED bucket
  /\ UNCHANGED <<analysisVars, chatVars, qaVars>>

\* How storage.remove([storagePath]) settles: the object is removed, or the
\* response carries a storageError, or the request itself throws.
RemoveOutcomes ==
  { Resolved("removed"),
    Resolved("storageError"),
    Rejected(TRUE, "Failed to fetch") }

\* A mutation of the removal: a failure of it is thrown on.
RemoveSettledThrowing(outcome) ==
  /\ delCall.pc = "removing"
  /\ bucket' = IF outcome = Resolved("removed")
               THEN bucket \ {LastCall(delCall).args[1]}
               ELSE bucket
  /\ IF outcome = Resolved("removed")
     THEN delCall' = [Settle(delCall, outcome) EXCEPT !.pc = "returned",
                                                      !.returned = Some([success |-> TRUE])]
     ELSE delCall' = [Settle(delCall, outcome) EXCEPT !.pc = "thrown",
                                                      !.thrown = Some("storage")]
  /\ UNCHANGED documents
  /\ UNCHANGED <<analysisVars, chatVars, qaVars>>

\* The removal settles; a storageError and a thrown error are only logged.
RemoveSettled(outcome) ==
  /\ delCall.pc = "removing"
  /\ bucket' = IF outcome = Resolved("removed")
               THEN bucket \ {LastCall(delCall).args[1]}
               ELSE bucket
  /\ delCall' = [Settle(delCall, outcome) EXCEPT !.pc = "returned",
                                                 !.returned = Some([success |-> TRUE])]
  /\ UNCHANGED documents
  /\ UNCHANGED <<analysisVars, chatVars, qaVars>>

\* Errors the delete request can come back with.
DbErrors == {"permission denied for table documents"}

DocInit ==
  /\ documents = DocumentRows
  /\ bucket = StoredObjects
  /\ delCall = IdleDelete

DocNext ==
  \/ \E documentId \in DocumentIds, userId \in UserIds : DeleteDocument(documentId, userId)
  \/ \E failed \in BOOLEAN : SelectSettled(failed)
  \/ \E dbError \in {None} \cup {Some(e) : e \in DbErrors} : DeleteSettled(dbError)
  \/ \E outcome \in RemoveOutcomes : RemoveSettled(outcome)

(***************************************************************************)
(* chatService.deleteChatSession against the two chat tables.              *)
(***************************************************************************)
\* The rows at the start: two sessions of user u1, and a session of user u2
\* that has the session id of one of them.
SessionRows ==
  { [session_id |-> "s1", user_id |-> "u1", title |-> Some("Lease")],
    [session_id |-> "s2", user_id |-> "u1", title |-> None],
    [session_id |-> "s1", user_id |-> "u2", title |-> None] }

MessageRows ==
  { [id |-> 1, session_id |-> "s1", user_id |-> "u1", role |-> "user", message |-> "Is it legal?"],
    [id |-> 2, session_id |-> "s1", user_id |-> "u1", role |-> "model", message |-> "Yes."],
    [id |-> 3, session_id |-> "s2", user_id |-> "u1", role |-> "user", message |-> "Hello"],
    [id |-> 4, session_id |-> "s1", user_id |-> "u2", role |-> "user", message |-> "Hi"] }

SessionIds == {r.session_id : r \in SessionRows}

\* .eq('session_id', sessionId).eq('user_id', userId)
OfSession(rows, sessionId, userId) ==
  {r \in rows : r.session_id = sessionId /\ r.user_id = userId}

IdleDeleteSession ==
  [pc |-> "idle", sessionId |-> "", userId |-> "", calls |-> <<>>,
   thrown |-> None, returned |-> None]

\* deleteChatSession(sessionId, userId) up to its first await.
DeleteChatSession(sessionId, userId) ==
  /\ delSession.pc \in {"idle", "returned", "thrown"}
  /\ delSession' = [IdleDeleteSession EXCEPT
                      !.pc = "deletingMessages",
                      !.sessionId = sessionId,
                      !.userId = userId,
                      !.calls = <<Call("chat_history.delete", <<sessionId, userId>>)>>]
  /\ UNCHANGED <<chatHistory, chatSessions>>
  /\ UNCHANGED <<analysisVars, docVars, qaVars>>

\* A mutation: a failure to delete the messages is passed over.
MessagesDeletedIgnoringError(messagesError) ==
  /\ delSession.pc = "deletingMessages"
  /\ LET r == Settle(delSession, IF messagesError = None THEN Resolved(None)
                                 ELSE Rejected(FALSE, messagesError[1]))
     IN /\ chatHistory' = IF messagesError = None
                          THEN chatHistory \ OfSession(chatHistory, delSession.sessionId,
                                                       delSession.userId)
                          ELSE chatHistory
        /\ delSession' = [r EXCEPT !.pc = "deletingSession",
                                   !.calls = Append(@, Call("chat_sessions.delete",
                                                            <<delSession.sessionId,
                                                              delSession.userId>>))]
  /\ UNCHANGED chatSessions
  /\ UNCHANGED <<analysisVars, docVars, qaVars>>

\* The delete on chat_history settles: if (messagesError) throw messagesError;
\* otherwise the delete on chat_sessions is sent.
MessagesDeleted(messagesError) ==
  /\ delSession.pc = "deletingMessages"
  /\ LET r == Settle(delSession, IF messagesError = None THEN Resolved(None)
                                 ELSE Rejected(FALSE, messagesError[1]))
     IN IF messagesError # None
        THEN /\ delSession' = [r EXCEPT !.pc = "thrown", !.thrown = messagesError]
             /\ UNCHANGED chatHistory
        ELSE /\ chatHistory' = chatHistory \ OfSession(chatHistory, delSession.sessionId,
                                                        delSession.userId)
             /\ delSession' = [r EXCEPT !.pc = "deletingSession",
                                        !.calls = Append(@, Call("chat_sessions.delete",
                                                                 <<delSession.sessionId,
                                                                   delSession.userId>>))]
  /\ UNCHANGED chatSessions
  /\ UNCHANGED <<analysisVars, docVars, qaVars>>

\* The delete on chat_sessions settles: if (sessionError) throw sessionError;
\* return { success: true }.
SessionDeleted(sessionError) ==
  /\ delSession.pc = "deletingSession"
  /\ LET r == Settle(delSession, IF sessionError = None THEN Resolved(None)
                                 ELSE Rejected(FALSE, sessionError[1]))
     IN IF sessionError # None
        THEN /\ delSession' = [r EXCEPT !.pc = "thrown", !.thrown = sessionError]
             /\ UNCHANGED chatSessions
        ELSE /\ chatSessions' = chatSessions \ OfSession(chatSessions, delSession.sessionId,
                                                          delSession.userId)
             /\ delSession' = [r EXCEPT !.pc = "returned",
                                        !.returned = Some([success |-> TRUE])]
  /\ UNCHANGED chatHistory
  /\ UNCHANGED <<analysisVars, docVars, qaVars>>

\* Errors a delete request on a chat table can come back with.
ChatDbErrors == {"permission denied for table chat_history", "Failed to fetch"}

ChatInit ==
  /\ chatHistory = MessageRows
  /\ chatSessions = SessionRows
  /\ delSession = IdleDeleteSession

ChatNext ==
  \/ \E sessionId \in SessionIds, userId \in UserIds : DeleteChatSession(sessionId, userId)
  \/ \E e \in {None} \cup {Some(m) : m \in ChatDbErrors} : MessagesDeleted(e)
  \/ \E e \in {None} \cup {Some(m) : m \in ChatDbErrors} : SessionDeleted(e)

(***************************************************************************)
(* Dashboard, and LegalQA's initChat effect.                               *)
(***************************************************************************)
\* The most times LegalQA is mounted in a behaviour.
MaxMounts == 2

\* The userId prop.
QaUserId == "u1"

\* crypto.randomUUID(), one value per call.
NewSessionIds == <<"new-1", "new-2", "new-3", "new-4", "new-5", "new-6">>

\* The state LegalQA is mounted with (lines 23-29), and none when it is not.
MountedLegalQA ==
  [mounted |-> TRUE, chat |-> None, messages |-> <<>>, userInput |-> "",
   isLoading |-> FALSE, error |-> None, sessionId |-> None, isLoadingHistory |-> FALSE]

UnmountedLegalQA == [MountedLegalQA EXCEPT !.mounted = FALSE]

\* One run of initChat: the loadSessionId it closed over, the id it generated,
\* its awaited calls, and the session whose history an earlier run of this
\* mount loaded.
IdleInitChat ==
  [pc |-> "idle", loadSessionId |-> None, newSessionId |-> None, calls |-> <<>>,
   loaded |-> None]

\* One invocation of handleSendMessage: what it closed over, its awaited calls,
\* the stream it reads, the reply so far, and what its catch block caught.
IdleSend ==
  [pc |-> "idle", sessionId |-> "", chat |-> None, userMessageText |-> "",
   first |-> FALSE, calls |-> <<>>, stream |-> None, modelResponseText |-> "",
   caught |-> None]

\* .order('created_at', { ascending: true }); rows are numbered as they are
\* inserted.
RECURSIVE Ordered(_)
Ordered(rows) ==
  IF rows = {} THEN <<>>
  ELSE LET first == CHOOSE r \in rows : \A q \in rows : r.id <= q.id
       IN <<first>> \o Ordered(rows \ {first})

\* chatService.getChatHistory(sessionId, userId), when it resolves
getChatHistory(sessionId, userId) == Ordered(OfSession(chatHistory, sessionId, userId))

\* history.map(msg => ({ role, parts: [{ text: msg.message }] }))
HistoryMessages(history) ==
  [k \in 1..Len(history) |-> [role |-> history[k].role, text |-> history[k].message]]

\* getAiClient().chats.create({ ..., history })
ChatsCreate(history) == [history |-> history]

\* Array.prototype.slice(0, -1)
AllButLast(xs) == SubSeq(xs, 1, Len(xs) - 1)

NextSessionId == NewSessionIds[uuids + 1]

\* The else branch of initChat up to its await (lines 93-99): a session id is
\* generated and set, and the session row is requested.
StartNewSession(qa, loaded) ==
  /\ uuids' = uuids + 1
  /\ legalQA' = [qa EXCEPT !.sessionId = Some(NextSessionId)]
  /\ initChat' = [IdleInitChat EXCEPT
                   !.pc = "creating",
                   !.newSessionId = Some(NextSessionId),
                   !.loaded = loaded,
                   !.calls = <<Call("createChatSession", <<QaUserId, NextSessionId>>)>>]

\* The if branch of initChat up to its await (lines 50-54).
StartLoadingSession(qa, sessionId) ==
  /\ UNCHANGED uuids
  /\ legalQA' = [qa EXCEPT !.isLoadingHistory = TRUE]
  /\ initChat' = [IdleInitChat EXCEPT
                   !.pc = "loading",
                   !.loadSessionId = Some(sessionId),
                   !.calls = <<Call("getChatHistory", <<sessionId, QaUserId>>)>>]

\* What no action of Dashboard and LegalQA touches.
QaFrame ==
  /\ UNCHANGED <<env, pc, files, attempt, lastErr, result, thrown, events, attempts>>
  /\ UNCHANGED <<pdfVars, uiVars, clientVars, docVars, delSession>>

QaSettled == initChat.pc \in {"idle", "done"} /\ send.pc \in {"idle", "done"}

\* LegalQA is mounted with loadSessionId = loadId and its effect runs initChat.
MountLegalQA(loadId) ==
  /\ mounts < MaxMounts
  /\ mounts' = mounts + 1
  /\ activeTab' = "qa"
  /\ IF loadId # None
     THEN StartLoadingSession(MountedLegalQA, loadId[1])
     ELSE StartNewSession(MountedLegalQA, None)

\* ChatHistory's 'Continue this conversation' for a session it lists:
\* onLoadSession(sessionId) sets loadChatSessionId and switches to tab 'qa'.
ContinueConversation(sessionId) ==
  /\ activeTab = "chathistory"
  /\ \E r \in chatSessions : r.session_id = sessionId /\ r.user_id = QaUserId
  /\ loadChatSessionId' = Some(sessionId)
  /\ MountLegalQA(Some(sessionId))
  /\ UNCHANGED <<send, sends, chatHistory, chatSessions, cachedClientKey, cachedAi>>
  /\ QaFrame

\* A TabButton is clicked; LegalQA is left only when nothing of it is pending.
SetActiveTab(tabName) ==
  /\ tabName # activeTab
  /\ activeTab = "qa" => QaSettled
  /\ IF tabName = "qa"
     THEN /\ MountLegalQA(loadChatSessionId)
          /\ UNCHANGED send
     ELSE /\ activeTab' = tabName
          /\ legalQA' = UnmountedLegalQA
          /\ initChat' = IdleInitChat
          /\ send' = IdleSend
          /\ UNCHANGED <<mounts, uuids>>
  /\ UNCHANGED <<loadChatSessionId, sends, chatHistory, chatSessions, cachedClientKey,
                 cachedAi>>
  /\ QaFrame

\* errorMessage is none of the silenced ones (lines 81-83, 114-116, 202-204)
Shown(errorMessage) ==
  /\ ~Includes(errorMessage, "API key")
  /\ ~Includes(errorMessage, "Missing API key")
  /\ errorMessage # ServiceUnavailable

\* getChatHistory settles (lines 54-91).  When the history is loaded and a
\* client is to be had, onSessionLoaded() sets Dashboard's loadChatSessionId to
\* null; LegalQA is rendered again with loadSessionId = null, which is a
\* changed dependency of the effect, so initChat runs again and takes its else
\* branch.
HistorySettled(outcome) ==
  /\ initChat.pc = "loading"
  /\ LET sessionId == initChat.loadSessionId[1]
         historyMessages == HistoryMessages(getChatHistory(sessionId, QaUserId))
         c == getAiClient(env, cachedClientKey, cachedAi)
         r == Settle(initChat, outcome)
     IN IF ~outcome.ok
        THEN /\ legalQA' = [legalQA EXCEPT
                             !.error = IF Shown(ErrorMessage(outcome, "[object Object]"))
                                       THEN Some("Failed to load conversation history")
                                       ELSE @,
                             !.isLoadingHistory = FALSE]
             /\ initChat' = [r EXCEPT !.pc = "done"]
             /\ UNCHANGED <<loadChatSessionId, cachedClientKey, cachedAi, uuids>>
        ELSE IF c.threw
        THEN /\ legalQA' = [legalQA EXCEPT !.messages = historyMessages,
                                           !.isLoadingHistory = FALSE]
             /\ initChat' = [r EXCEPT !.pc = "done"]
             /\ UNCHANGED <<loadChatSessionId, cachedClientKey, cachedAi, uuids>>
        ELSE /\ cachedClientKey' = c.cachedClientKey
             /\ cachedAi' = c.cachedAi
             /\ loadChatSessionId' = None
             /\ StartNewSession(
                  [legalQA EXCEPT !.messages = historyMessages,
                                  !.chat = Some(ChatsCreate(AllButLast(historyMessages))),
                                  !.sessionId = Some(sessionId),
                                  !.isLoadingHistory = FALSE],
                  Some(sessionId))
  /\ UNCHANGED <<activeTab, send, mounts, sends, chatHistory, chatSessions>>
  /\ QaFrame

\* createChatSession settles (a failure is logged), then the chat is created
\* with an empty history unless getAiClient throws (lines 98-121).
SessionCreated(outcome) ==
  /\ initChat.pc = "creating"
  /\ LET c == getAiClient(env, cachedClientKey, cachedAi)
     IN /\ chatSessions' = IF outcome.ok
                           THEN chatSessions \cup
                                  {[session_id |-> initChat.newSessionId[1],
                                    user_id |-> QaUserId, title |-> None]}
                           ELSE chatSessions
        /\ cachedClientKey' = c.cachedClientKey
        /\ cachedAi' = c.cachedAi
        /\ legalQA' = IF c.threw THEN legalQA
                      ELSE [legalQA EXCEPT !.chat = Some(ChatsCreate(<<>>))]
        /\ initChat' = [Settle(initChat, outcome) EXCEPT !.pc = "done"]
  /\ UNCHANGED <<activeTab, loadChatSessionId, send, mounts, sends, uuids, chatHistory>>
  /\ QaFrame

\* How a request to a chat table settles.
ChatRequestOutcomes == {Resolved(None), Rejected(TRUE, "Failed to fetch")}

(***************************************************************************)
(* LegalQA.handleSendMessage.                                              *)
(***************************************************************************)
\* The most sends accepted in a behaviour.
MaxSends == 2

\* What can be typed into the input.
UserInputs == {"", "  ", " Is it legal? "}

\* A stream sendMessageStream resolves with: the texts of its chunks, and the
\* error the iteration ends with, if it breaks.
Streams ==
  { [chunks |-> <<>>, error |-> None],
    [chunks |-> <<"">>, error |-> None],
    [chunks |-> <<"Yes", ".">>, error |-> None],
    [chunks |-> <<"Yes">>, error |-> Some("Internal error encountered.")] }

\* How sendMessageStream settles; what it rejects with need not be an Error.
StreamOutcomes ==
  {Resolved(st) : st \in Streams}
    \cup { Rejected(TRUE, "429 Too Many Requests"),
           Rejected(FALSE, "Quota exceeded"),
           Rejected(TRUE, "Internal error encountered."),
           Rejected(TRUE, "API key not valid. Please pass a valid API key.") }

\* (/quota|rate|429/i).test(msg)
StreamRetryable(msg) ==
  \/ Includes(ToLowerCase(msg), "quota")
  \/ Includes(ToLowerCase(msg), "rate")
  \/ Includes(msg, "429")

\* The delay before the one retry, in ms.
RetryDelayMs == 1200

\* The row saveMessage inserts.
NewMessageRow(sessionId, role, message) ==
  [id |-> 1 + Cardinality(chatHistory), session_id |-> sessionId, user_id |-> QaUserId,
   role |-> role, message |-> message]

SaveMessageCall(r, role, message) ==
  Call("saveMessage", <<QaUserId, r.sessionId, role, message>>)

\* chatService.saveMessage settles: the row is there when it resolved.
Saved(outcome) ==
  chatHistory' = IF outcome.ok
                 THEN chatHistory \cup {NewMessageRow(send.calls[Len(send.calls)].args[2],
                                                      send.calls[Len(send.calls)].args[3],
                                                      send.calls[Len(send.calls)].args[4])}
                 ELSE chatHistory

\* onChange of the input, which is disabled while a send is loading.
SetUserInput(text) ==
  /\ legalQA.mounted
  /\ ~legalQA.isLoadingHistory
  /\ ~legalQA.isLoading
  /\ legalQA' = [legalQA EXCEPT !.userInput = text]
  /\ UNCHANGED <<activeTab, loadChatSessionId, initChat, send, mounts, sends, uuids,
                 chatHistory, chatSessions, cachedClientKey, cachedAi>>
  /\ QaFrame

\* The form is submitted: handleSendMessage up to its first await (lines
\* 133-153).  A submit the guard of line 135 turns away changes nothing.
HandleSendMessage ==
  /\ legalQA.mounted
  /\ ~legalQA.isLoadingHistory
  /\ sends < MaxSends
  /\ ~(Trim(legalQA.userInput) = "" \/ legalQA.chat = None \/ legalQA.isLoading
         \/ legalQA.sessionId = None)
  /\ LET userMessageText == Trim(legalQA.userInput)
         r == [IdleSend EXCEPT !.pc = "savingUser",
                               !.sessionId = legalQA.sessionId[1],
                               !.chat = legalQA.chat,
                               !.userMessageText = userMessageText,
                               !.first = (Len(legalQA.messages) = 0)]
     IN /\ legalQA' = [legalQA EXCEPT
                        !.messages = Append(@, [role |-> "user", text |-> userMessageText]),
                        !.userInput = "",
                        !.isLoading = TRUE,
                        !.error = None]
        /\ send' = [r EXCEPT !.calls = <<SaveMessageCall(r, "user", userMessageText)>>]
  /\ sends' = sends + 1
  /\ UNCHANGED <<activeTab, loadChatSessionId, initChat, mounts, uuids,
                 chatHistory, chatSessions, cachedClientKey, cachedAi>>
  /\ QaFrame

\* finally { setIsLoading(false) }
SendFinally(qa, r) ==
  /\ legalQA' = [qa EXCEPT !.isLoading = FALSE]
  /\ send' = [r EXCEPT !.pc = "done"]

\* The catch block of handleSendMessage (lines 199-220) entered with what was
\* thrown: a message that is not silenced is shown, appended as a model
\* message and saved.
SendCatch(r, outcome) ==
  LET errorMessage == ErrorMessage(outcome, "An unknown error occurred.")
      text == "Sorry, I encountered an error: " \o errorMessage
      caught == [r EXCEPT !.caught = Some(outcome)]
  IN IF Shown(errorMessage)
     THEN /\ legalQA' = [legalQA EXCEPT
                          !.error = Some(errorMessage),
                          !.messages = Append(@, [role |-> "model", text |-> text])]
          /\ send' = [caught EXCEPT !.pc = "savingError",
                                    !.calls = Append(@, SaveMessageCall(r, "model", text))]
     ELSE SendFinally(legalQA, caught)

\* chat.sendMessageStream({ message: messageToSend }) is called.
SendMessageStream(r) ==
  [r EXCEPT !.pc = "streaming",
            !.calls = Append(@, Call("sendMessageStream", <<r.userMessageText>>))]

\* userMessageText.length > 50 ? userMessageText.substring(0, 50) + '...' : ...
Title(userMessageText) ==
  IF Len(userMessageText) > 50 THEN SubSeq(userMessageText, 1, 50) \o "..."
  ELSE userMessageText

\* The save of the user's message settles (lines 153-165).
UserSaved(outcome) ==
  /\ send.pc = "savingUser"
  /\ Saved(outcome)
  /\ LET r == Settle(send, outcome)
     IN IF ~outcome.ok
        THEN SendCatch(r, outcome)
        ELSE /\ send' = IF r.first
                        THEN [r EXCEPT !.pc = "titling",
                                       !.calls = Append(@, Call("updateChatSessionTitle",
                                                    <<r.sessionId, QaUserId,
                                                      Title(r.userMessageText)>>))]
                        ELSE SendMessageStream(r)
             /\ UNCHANGED legalQA
  /\ UNCHANGED <<activeTab, loadChatSessionId, initChat, mounts, sends, uuids,
                 chatSessions, cachedClientKey, cachedAi>>
  /\ QaFrame

\* updateChatSessionTitle settles; its failure is logged (lines 160-164).
TitleSettled(outcome) ==
  /\ send.pc = "titling"
  /\ chatSessions' =
       IF outcome.ok
       THEN {IF row.session_id = send.sessionId /\ row.user_id = QaUserId
             THEN [row EXCEPT !.title = Some(LastCall(send).args[3])]
             ELSE row : row \in chatSessions}
       ELSE chatSessions
  /\ send' = SendMessageStream(Settle(send, outcome))
  /\ UNCHANGED <<activeTab, loadChatSessionId, legalQA, initChat, mounts, sends, uuids,
                 chatHistory, cachedClientKey, cachedAi>>
  /\ QaFrame

StreamCalls(r) == {k \in 1..Len(r.calls) : r.calls[k].op = "sendMessageStream"}

\* A mutation of tryStream: every failure of the first call is retried.
StreamSettledRetryingAll(outcome) ==
  /\ send.pc = "streaming"
  /\ LET r == Settle(send, outcome)
     IN IF outcome.ok
        THEN /\ legalQA' = [legalQA EXCEPT
                             !.messages = Append(@, [role |-> "model", text |-> ""])]
             /\ send' = [r EXCEPT !.pc = "reading", !.stream = Some(outcome.value)]
        ELSE IF Cardinality(StreamCalls(r)) = 1
        THEN /\ send' = [r EXCEPT !.pc = "waiting",
                                  !.calls = Append(@, Call("setTimeout", <<RetryDelayMs>>))]
             /\ UNCHANGED legalQA
        ELSE SendCatch(r, outcome)
  /\ UNCHANGED <<activeTab, loadChatSessionId, initChat, mounts, sends, uuids,
                 chatHistory, chatSessions, cachedClientKey, cachedAi>>
  /\ QaFrame

\* sendMessageStream settles (lines 168-184): tryStream retries the first
\* call once, after the delay, when its failure reads like a rate limit.
StreamSettled(outcome) ==
  /\ send.pc = "streaming"
  /\ LET r == Settle(send, outcome)
     IN IF outcome.ok
        THEN /\ legalQA' = [legalQA EXCEPT
                             !.messages = Append(@, [role |-> "model", text |-> ""])]
             /\ send' = [r EXCEPT !.pc = "reading", !.stream = Some(outcome.value)]
        ELSE IF Cardinality(StreamCalls(r)) = 1 /\ StreamRetryable(outcome.message)
        THEN /\ send' = [r EXCEPT !.pc = "waiting",
                                  !.calls = Append(@, Call("setTimeout", <<RetryDelayMs>>))]
             /\ UNCHANGED legalQA
        ELSE SendCatch(r, outcome)
  /\ UNCHANGED <<activeTab, loadChatSessionId, initChat, mounts, sends, uuids,
                 chatHistory, chatSessions, cachedClientKey, cachedAi>>
  /\ QaFrame

\* The timer of the backoff fires and the stream is requested again.
RetryDelayElapsed ==
  /\ send.pc = "waiting"
  /\ send' = SendMessageStream(Settle(send, Resolved(None)))
  /\ UNCHANGED <<activeTab, loadChatSessionId, legalQA, initChat, mounts, sends, uuids,
                 chatHistory, chatSessions, cachedClientKey, cachedAi>>
  /\ QaFrame

\* One round of for await (lines 186-193): the chunk's text is added to the
\* reply and the last message shows it.
ChunkRead ==
  /\ send.pc = "reading"
  /\ send.stream[1].chunks # <<>>
  /\ LET modelResponseText == send.modelResponseText \o Head(send.stream[1].chunks)
     IN /\ send' = [send EXCEPT !.modelResponseText = modelResponseText,
                                !.stream = Some([@[1] EXCEPT !.chunks = Tail(@)])]
        /\ legalQA' = [legalQA EXCEPT
                        !.messages[Len(legalQA.messages)] =
                            [role |-> "model", text |-> modelResponseText]]
  /\ UNCHANGED <<activeTab, loadChatSessionId, initChat, mounts, sends, uuids,
                 chatHistory, chatSessions, cachedClientKey, cachedAi>>
  /\ QaFrame

\* A mutation of the end of the stream: the reply is saved whatever it holds.
StreamEndedSavingAny ==
  /\ send.pc = "reading"
  /\ send.stream[1].chunks = <<>>
  /\ IF send.stream[1].error # None
     THEN SendCatch(send, Rejected(TRUE, send.stream[1].error[1]))
     ELSE /\ send' = [send EXCEPT !.pc = "savingModel",
                                  !.calls = Append(@, SaveMessageCall(send, "model",
                                                         send.modelResponseText))]
          /\ UNCHANGED legalQA
  /\ UNCHANGED <<activeTab, loadChatSessionId, initChat, mounts, sends, uuids,
                 chatHistory, chatSessions, cachedClientKey, cachedAi>>
  /\ QaFrame

\* The iteration ends (lines 193-198): it throws, or the reply is saved if it
\* is not empty.
StreamEnded ==
  /\ send.pc = "reading"
  /\ send.stream[1].chunks = <<>>
  /\ IF send.stream[1].error # None
     THEN SendCatch(send, Rejected(TRUE, send.stream[1].error[1]))
     ELSE IF send.modelResponseText # ""
     THEN /\ send' = [send EXCEPT !.pc = "savingModel",
                                  !.calls = Append(@, SaveMessageCall(send, "model",
                                                         send.modelResponseText))]
          /\ UNCHANGED legalQA
     ELSE SendFinally(legalQA, send)
  /\ UNCHANGED <<activeTab, loadChatSessionId, initChat, mounts, sends, uuids,
                 chatHistory, chatSessions, cachedClientKey, cachedAi>>
  /\ QaFrame

\* The save of the reply settles.
ModelSaved(outcome) ==
  /\ send.pc = "savingModel"
  /\ Saved(outcome)
  /\ IF outcome.ok
     THEN SendFinally(legalQA, Settle(send, outcome))
     ELSE SendCatch(Settle(send, outcome), outcome)
  /\ UNCHANGED <<activeTab, loadChatSessionId, initChat, mounts, sends, uuids,
                 chatSessions, cachedClientKey, cachedAi>>
  /\ QaFrame

\* The save of the error message settles; its failure is logged.
ErrorSaved(outcome) ==
  /\ send.pc = "savingError"
  /\ Saved(outcome)
  /\ SendFinally(legalQA, Settle(send, outcome))
  /\ UNCHANGED <<activeTab, loadChatSessionId, initChat, mounts, sends, uuids,
                 chatSessions, cachedClientKey, cachedAi>>
  /\ QaFrame


QaInit ==
  /\ activeTab = "analysis"
  /\ loadChatSessionId = None
  /\ legalQA = UnmountedLegalQA
  /\ initChat = IdleInitChat
  /\ send = IdleSend
  /\ mounts = 0
  /\ sends = 0
  /\ uuids = 0

QaNext ==
  \/ \E sessionId \in SessionIds : ContinueConversation(sessionId)
  \/ \E tabName \in {"analysis", "chathistory", "qa"} : SetActiveTab(tabName)
  \/ \E outcome \in ChatRequestOutcomes : HistorySettled(outcome)
  \/ \E outcome \in ChatRequestOutcomes : SessionCreated(outcome)
  \/ \E text \in UserInputs : SetUserInput(text)
  \/ HandleSendMessage
  \/ \E outcome \in ChatRequestOutcomes : UserSaved(outcome)
  \/ \E outcome \in ChatRequestOutcomes : TitleSettled(outcome)
  \/ \E outcome \in StreamOutcomes : StreamSettled(outcome)
  \/ RetryDelayElapsed
  \/ ChunkRead
  \/ StreamEnded
  \/ \E outcome \in ChatRequestOutcomes : ModelSaved(outcome)
  \/ \E outcome \in ChatRequestOutcomes : ErrorSaved(outcome)

BackendInit == DocInit /\ ChatInit /\ QaInit

(***************************************************************************)
(* Specifications.  Spec runs the analysis service, SpecPdf the PDF        *)
(* handler, SpecUi the component; each leaves the others' state as it      *)
(* starts.                                                                 *)
(***************************************************************************)
vars == <<analysisVars, backendVars>>

Init == GeminiInit /\ PdfInit /\ UiInit /\ ClientInit /\ BackendInit

Next == GeminiNext

Spec == Init /\ [][Next]_vars

InitPdf == env = NoKeys /\ GeminiInit /\ PdfInit /\ UiInit /\ ClientInit /\ BackendInit

NextPdf == PdfNext

SpecPdf == InitPdf /\ [][NextPdf]_vars

InitUi == InitPdf

NextUi == UiNext

SpecUi == InitUi /\ [][NextUi]_vars

InitClient == Init

NextClient == ClientNext

SpecClient == InitClient /\ [][NextClient]_vars

InitCatch == CatchInit /\ PdfInit /\ UiInit /\ ClientInit /\ BackendInit

NextCatch == OuterCatch

SpecCatch == InitCatch /\ [][NextCatch]_vars

InitDoc == InitPdf

NextDoc == DocNext

SpecDoc == InitDoc /\ [][NextDoc]_vars

InitChat == InitPdf

NextChat == ChatNext

SpecChat == InitChat /\ [][NextChat]_vars

\* LegalQA is run without a key and with one.
QaEnvs == {NoKeys, [NoKeys EXCEPT !.viteKey = Some(" key-1 ")]}

InitQa == Init /\ env \in QaEnvs

NextQa == QaNext

SpecQa == InitQa /\ [][NextQa]_vars

(***************************************************************************)
(* Properties of analyzeDocument and getAiClient.                          *)
(***************************************************************************)
\* The provider calls and sleeps of a call, after the encodings.
ProviderEvents == SubSeq(events, Len(files) + 1, Len(events))

CallEvent(n) == [op |-> "generateContent", arg |-> n]

SleepEvent(ms) == [op |-> "sleep", arg |-> ms]

RateLimitFailure(a) == ~a.ok /\ isRateLimited(a.message)

FailedTwiceThenSucceeded ==
  /\ Len(attempts) = 3
  /\ RateLimitFailure(attempts[1])
  /\ RateLimitFailure(attempts[2])
  /\ attempts[3].ok

\* C1: when attempts 1 and 2 fail with a rate-limit-shaped error and attempt 3
\* succeeds, analyzeDocument returns the value parsed from the third response
\* after exactly three provider calls with a sleep of 1000 ms between the first
\* and the second and one of 2000 ms between the second and the third.
C1_TwoBackoffsThenResult ==
  FailedTwiceThenSucceeded =>
    /\ pc = "returned"
    /\ result = JSONParse(StripFences(Trim(attempts[3].message))).val
    /\ ProviderEvents = << CallEvent(0), SleepEvent(1000), CallEvent(1),
                           SleepEvent(2000), CallEvent(2) >>

C1_Witness ==
  /\ FailedTwiceThenSucceeded
  /\ pc = "returned"
  /\ result # None

\* C2: when all three attempts fail with a message matching the retry loop's
\* pattern, analyzeDocument makes exactly three provider calls and throws the
\* quota/rate-limit message.
C2_ExhaustedRetriesThrowRateLimited ==
  ( /\ Len(attempts) = 3
    /\ \A i \in 1..3 : RateLimitFailure(attempts[i]) )
  => /\ pc = "thrown"
     /\ thrown = Some(RateLimitedMessage)
     /\ Cardinality({i \in 1..Len(events) : events[i].op = "generateContent"}) = 3

\* C3: when the first attempt fails with a message that is not
\* rate-limit-shaped, the call has made one provider call and no sleep, and
\* has thrown what the error mapping makes of that first failure.
C3_OtherFailureNotRetried ==
  ( /\ Len(attempts) >= 1
    /\ ~attempts[1].ok
    /\ ~isRateLimited(attempts[1].message) )
  => /\ pc = "thrown"
     /\ Len(attempts) = 1
     /\ ProviderEvents = << CallEvent(0) >>
     /\ thrown = Some(MapError(attempts[1].message))

C3_Witness ==
  /\ pc = "thrown"
  /\ attempts = << [ok |-> FALSE, message |-> "Empty response from AI model."] >>
  /\ ProviderEvents = << CallEvent(0) >>

InvalidFileList(fs) == Len(fs) = 0 \/ \E i \in 1..Len(fs) : fs[i].size = 0

\* C4: a call with an empty file list, or with a list holding a file of size
\* 0, has thrown without starting an encoding or a provider call, whatever the
\* credential cache held.
C4_InvalidInputFailsBeforeAnyWork ==
  (pc # "idle" /\ InvalidFileList(files)) => (pc = "thrown" /\ events = <<>>)

C4_Witness ==
  /\ pc = "thrown"
  /\ files = << DocumentFile, EmptyFile >>
  /\ cachedAi # None
  /\ thrown = Some(AnalysisFailedMessage)

HasRequiredFields(v) == v.type = "object" /\ RequiredFields \subseteq DOMAIN v.members

\* C5: a result analyzeDocument returns has every required field of
\* AnalysisResult.
C5_ReturnedResultHasRequiredFields ==
  pc = "returned" => HasRequiredFields(result[1])

\* C6: whatever analyzeDocument throws carries one of the five fixed messages,
\* and never the message of the error that was caught.
C6_ThrownIsTaxonomyMessage ==
  pc = "thrown" =>
    /\ thrown # None
    /\ thrown[1] \in TaxonomyMessages
    /\ thrown # lastErr

C6_Witness ==
  /\ pc = "thrown"
  /\ lastErr = Some("Internal error encountered.")
  /\ thrown = Some(AnalysisFailedMessage)

\* C7: a call made while no non-blank key resolves throws SERVICE_UNAVAILABLE
\* with no encoding and no provider call, and leaves cachedClientKey and
\* cachedAi as they were.
C7_NoKeyIsServiceUnavailable ==
  [][ (~InFlight /\ env' = env /\ resolveApiKey(env) = None)
      => /\ pc' = "thrown"
         /\ thrown' = Some(ServiceUnavailable)
         /\ events' = <<>>
         /\ cachedClientKey' = cachedClientKey
         /\ cachedAi' = cachedAi ]_vars

C7_Witness ==
  /\ pc = "thrown"
  /\ thrown = Some(ServiceUnavailable)
  /\ resolveApiKey(env) = None
  /\ events = <<>>
  /\ cachedAi = Some(GoogleGenAI("key-1"))

(***************************************************************************)
(* Properties of isPasswordProtected and convertPdfToImages.               *)
(***************************************************************************)
ProbeReturned == pdfCall = "isPasswordProtected" /\ pdfPc = "returned"

\* C8: a call of isPasswordProtected never ends by throwing: whether reading
\* the bytes, opening the document or fetching page 1 succeeded or failed, it
\* settles by returning a boolean.
C8_ProbeNeverRaises ==
  pdfCall = "isPasswordProtected" =>
    /\ pdfPc # "thrown"
    /\ pdfThrown = None
    /\ pdfPc = "returned" => pdfReturned \in {Some(TRUE), Some(FALSE)}

C8_Witness ==
  /\ ProbeReturned
  /\ pdfCaughtAt = "read"
  /\ pdfError = Some(NotReadable)
  /\ pdfReturned = Some(FALSE)

\* An error that says "password" or "encrypted" by its name, code or message.
ClassifiedAsPassword(e) ==
  \/ e.name \in {"PasswordException", "PasswordResponses"}
  \/ e.code = "PasswordException"
  \/ Includes(ToLowerCase(e.message), "password")
  \/ Includes(ToLowerCase(e.message), "encrypted")

\* C9: isPasswordProtected returns true exactly when opening the document or
\* fetching page 1 failed with an error classified as password/encrypted; it
\* returns false when page 1 loaded, when the failure is not so classified,
\* and when the bytes could not be read.
C9_TrueIffPasswordFailure ==
  ProbeReturned =>
    pdfReturned = Some( /\ pdfCaughtAt \in {"open", "page"}
                        /\ ClassifiedAsPassword(pdfError[1]) )

C9_Witness ==
  /\ ProbeReturned
  /\ pdfCaughtAt = "page"
  /\ pdfError = Some(NoPasswordGiven)
  /\ pdfReturned = Some(TRUE)

ConvertReturned == pdfCall = "convertPdfToImages" /\ pdfPc = "returned"

PageName(k) == "page-" \o ToString(k) \o ".png"

\* The pages of 1..n outside `left`, in ascending order.
RECURSIVE KeptPages(_, _)
KeptPages(n, left) ==
  IF n = 0 THEN <<>>
  ELSE IF n \in left THEN KeptPages(n - 1, left)
  ELSE Append(KeptPages(n - 1, left), n)

SkippedPages == {skipped[i] : i \in 1..Len(skipped)}

\* C10, as claimed: the list convertPdfToImages returns for a document of N
\* pages has exactly min(N, 10) files, the i-th being page i, none empty.
C10_ReturnsEveryPage ==
  ConvertReturned =>
    /\ Len(imageFiles) = Min(pdfFile[1].numPages, 10)
    /\ \A i \in 1..Len(imageFiles) :
         imageFiles[i].name = PageName(i) /\ imageFiles[i].size > 0

\* C10, amended: the list returned holds exactly the pages among the first
\* min(N, 10) that the loop did not skip, in ascending page order, none empty;
\* when no page was skipped these are min(N, 10) files, the i-th being page i.
C10_ReturnsUnskippedPagesInOrder ==
  ConvertReturned =>
    LET n == Min(pdfFile[1].numPages, 10)
        kept == KeptPages(n, SkippedPages)
    IN /\ Opens(pdfFile[1], password)
       /\ SkippedPages \subseteq 1..n
       /\ Len(imageFiles) = Len(kept)
       /\ Len(imageFiles) >= 1
       /\ \A i \in 1..Len(imageFiles) :
            imageFiles[i].name = PageName(kept[i]) /\ imageFiles[i].size > 0
       /\ skipped = <<>> =>
            /\ Len(imageFiles) = n
            /\ \A i \in 1..n : imageFiles[i].name = PageName(i)

C10_Witness ==
  /\ ConvertReturned
  /\ pdfFile[1].password = Some("secret")
  /\ password = Some("secret")
  /\ pdfFile[1].numPages = 11
  /\ skipped = <<>>
  /\ Len(imageFiles) = 10
  /\ imageFiles[10].name = "page-10.png"

ConvertCalled == pdfCall = "convertPdfToImages"

\* C11: a call of convertPdfToImages with a password that does not open the
\* document never returns and never holds an image, not even one page; it
\* ends by throwing, and when what it caught is pdf.js's rejection of the
\* password (at getDocument or at the first getPage) the message thrown is
\* the 'Invalid password...' one, which is not a 'Failed to process PDF'
\* one.  The only other ways such a call ends are the failures that come
\* before the password is tried: the bytes not read, the worker not started.
C11_WrongPasswordIsInvalidPassword ==
  (ConvertCalled /\ ~Opens(pdfFile[1], password)) =>
    /\ pdfPc # "returned"
    /\ pdfReturned = None
    /\ imageFiles = <<>>
    /\ pdfPc = "thrown" =>
          IF pdfError = Some(IncorrectPassword)
          THEN /\ pdfCaughtAt \in {"open", "getPage"}
               /\ pdfThrown = Some(InvalidPasswordMessage)
               /\ StartsWith(pdfThrown[1], "Invalid password")
               /\ ~StartsWith(pdfThrown[1], "Failed to process PDF")
          ELSE /\ <<pdfCaughtAt, pdfError>> \in
                    {<<"read", Some(NotReadable)>>, <<"open", Some(WorkerFailed)>>}
               /\ StartsWith(pdfThrown[1], "Failed to process PDF")

C11_Witness ==
  /\ ConvertCalled
  /\ pdfFile[1].password = Some("secret")
  /\ password = Some("guess")
  /\ pdfPc = "thrown"
  /\ pdfCaughtAt = "getPage"
  /\ pdfError = Some(IncorrectPassword)
  /\ pdfThrown = Some(InvalidPasswordMessage)

\* C12, as claimed: once the document is open with a password that opens it,
\* no failure of a page ends the call (a page that cannot be fetched or
\* rendered is skipped like one without context or blob), so the call throws
\* only from the test after the loop, with no page rasterized.
C12_PageFailureSkipsPage ==
  (ConvertCalled /\ pdfPc = "thrown" /\ pdfDocument # None
     /\ Opens(pdfFile[1], password)) =>
    /\ pdfCaughtAt = "loop"
    /\ imageFiles = <<>>

\* The page numbers the file names of the list carry.
PageNumbers == {k \in 1..MaxPdfPages : \E i \in 1..Len(imageFiles) :
                                           imageFiles[i].name = PageName(k)}

\* C13: a list convertPdfToImages returns has between 1 and 10 files, each
\* named for one of the pages 1..10 however long the document is and
\* whichever pages were skipped, and the document it came from was opened by
\* getDocument with the password supplied.
C13_ListBoundedAndFromOpenedDocument ==
  ConvertReturned =>
    /\ Len(imageFiles) >= 1
    /\ Len(imageFiles) <= 10
    /\ \A i \in 1..Len(imageFiles) :
         \E k \in 1..10 : imageFiles[i].name = PageName(k)
    /\ PageNumbers \subseteq 1..10
    /\ pdfDocument # None
    /\ ~pdfDocument[1].locked
    /\ Opens(pdfFile[1], password)
    /\ pdfError = None

C13_Witness ==
  /\ ConvertReturned
  /\ pdfFile[1].numPages = 11
  /\ pdfFile[1].password = Some("secret")
  /\ password = Some("secret")
  /\ skipped = <<1, 2, 4>>
  /\ Len(imageFiles) = 7
  /\ imageFiles[7].name = "page-10.png"

(***************************************************************************)
(* Properties of DocumentAnalysis.                                         *)
(***************************************************************************)
\* The positions in r's calls of the calls of `op`.
CallsOf(r, op) == {k \in 1..Len(r.calls) : r.calls[k].op = op}

Started(r) == r.pc # "idle" /\ r.exit # "rejected"

Ended(i) == invocations[i].pc # "done" /\ invocations'[i].pc = "done"

\* C14: an invocation for a PDF without a password calls isPasswordProtected
\* first, and calls analyzeDocument only once that call has settled; when it
\* settles with true, the same step shows the prompt, holds the file as
\* pendingFile and ends the invocation, whose only call is that one: no
\* analyzeDocument, uploadFile or saveDocument.
C14_ProbeBeforeAnalysis ==
  [][\A i \in Slots :
       LET r == invocations[i]
           n == invocations'[i]
       IN /\ (Started(n) /\ NeedsProbe(n)) =>
               /\ n.calls[1].op = "isPasswordProtected"
               /\ n.calls[1].args = <<n.file[1]>>
               /\ CallsOf(n, "analyzeDocument") # {} =>
                     /\ n.calls[1].settled # None
                     /\ \A k \in CallsOf(n, "analyzeDocument") : k > 1
               /\ n.calls[1].settled = Some(Resolved(TRUE)) =>
                     /\ n.pc = "done"
                     /\ n.exit = "prompt"
                     /\ Len(n.calls) = 1
          /\ (r.pc = "probing" /\ n # r) =>
               /\ n.calls[1].settled # None
               /\ n.calls[1].settled = Some(Resolved(TRUE)) =>
                     /\ showPasswordPrompt'
                     /\ pendingFile' = n.file
                     /\ CallsOf(n, "analyzeDocument") = {}
                     /\ CallsOf(n, "uploadFile") = {}
                     /\ CallsOf(n, "saveDocument") = {}
  ]_vars

C14_Witness ==
  \E i \in Slots :
    /\ invocations[i].pc = "done"
    /\ invocations[i].exit = "prompt"
    /\ invocations[i].file = Some(DeedPdf)
    /\ invocations[i].providedPassword = None
    /\ Len(invocations[i].calls) = 1
    /\ invocations[i].calls[1].settled = Some(Resolved(TRUE))
    /\ showPasswordPrompt
    /\ pendingFile = Some(DeedPdf)

\* The analyzeDocument call of r has returned a result.
Analysed(r) ==
  \E k \in CallsOf(r, "analyzeDocument") :
    r.calls[k].settled # None /\ r.calls[k].settled[1].ok

\* C15, as claimed: an invocation made with a password typed into the prompt
\* whose analyzeDocument call returned a result leaves the password state
\* empty when it ends, whether uploadFile and saveDocument then succeeded or
\* failed; and what it passes to uploadFile is the file and the user id, to
\* saveDocument the file's description, the URL and the analysis.
C15_PasswordClearedAfterAnalysis ==
  [][\A i \in Slots :
       LET n == invocations'[i]
       IN (Ended(i) /\ Truthy(n.providedPassword) /\ Analysed(n)) =>
            /\ passwordState' = ""
            /\ \A k \in CallsOf(n, "uploadFile") :
                 n.calls[k].args = <<n.file[1], UserId>>
            /\ \A k \in CallsOf(n, "saveDocument") :
                 n.calls[k].args =
                   <<DocumentData(n.file[1], n.calls[k - 1].settled[1].value,
                                  n.result[1])>>
  ]_vars

\* No invocation but i is under way or has ended since the last one started.
Alone(i) == \A j \in Slots \ {i} : invocations[j].pc = "idle"

\* C16: the step in which convertPdfToImages throws 'Invalid password...'
\* shows the prompt with that message as passwordError, clears isLoading,
\* leaves pendingFile and the error state as they are, and ends the
\* invocation with convertPdfToImages its only call; the invocation was
\* started for the file pendingFile held, with the error state cleared, so
\* with no other invocation about pendingFile is that file and the error
\* state is null; the prompt then accepts another submit.
C16_InvalidPasswordShowsPromptAgain ==
  [][\A i \in Slots :
       LET r == invocations[i]
           n == invocations'[i]
       IN /\ (r.pc \in {"idle", "done"} /\ n.pc = "converting") =>
               /\ n.file = pendingFile
               /\ pendingFile' = pendingFile
               /\ errorState' = None
          /\ (r.pc = "converting" /\ n # r
                /\ LastCall(n).settled = Some(Rejected(TRUE, InvalidPasswordMessage))) =>
               /\ n.pc = "done"
               /\ n.exit = "reprompt"
               /\ n.calls = <<[op |-> "convertPdfToImages",
                               args |-> <<n.file[1], n.providedPassword[1]>>,
                               settled |-> Some(Rejected(TRUE, InvalidPasswordMessage))]>>
               /\ showPasswordPrompt'
               /\ passwordError' = Some(InvalidPasswordMessage)
               /\ isLoading' = FALSE
               /\ pendingFile' = pendingFile
               /\ errorState' = errorState
               /\ Alone(i) => (pendingFile' = n.file /\ errorState' = None)
  ]_vars

C16_Witness ==
  \E i \in Slots :
    /\ invocations[i].pc = "done"
    /\ invocations[i].exit = "reprompt"
    /\ invocations[i].file = Some(DeedPdf)
    /\ invocations[i].providedPassword = Some("guess")
    /\ Alone(i)
    /\ showPasswordPrompt
    /\ passwordError = Some(InvalidPasswordMessage)
    /\ pendingFile = Some(DeedPdf)
    /\ ~isLoading
    /\ errorState = None
    /\ passwordState = "guess"

\* The call of r at position k has settled with a value.
Succeeded(r, k) == r.calls[k].settled # None /\ r.calls[k].settled[1].ok

\* The call of r at position k has settled with something thrown.
Failed(r, k) == r.calls[k].settled # None /\ ~r.calls[k].settled[1].ok

\* C17, as claimed: an invocation calls analyzeDocument, uploadFile and
\* saveDocument at most once each and in that order, each right after the one
\* before it returned; uploadFile is given the file the invocation was given;
\* saveSuccess becomes true only in the step that ends an invocation whose
\* three calls returned; and an invocation ending after uploadFile or
\* saveDocument threw has made no further call of the three and leaves the
\* thrown message in the error state.
C17_CallsInOrderAndFailuresSurfaced ==
  [][/\ \A i \in Slots :
          LET n == invocations'[i]
              a == CallsOf(n, "analyzeDocument")
              u == CallsOf(n, "uploadFile")
              d == CallsOf(n, "saveDocument")
          IN /\ Cardinality(a) <= 1 /\ Cardinality(u) <= 1 /\ Cardinality(d) <= 1
             /\ \A k \in u : /\ k - 1 \in a
                              /\ Succeeded(n, k - 1)
                              /\ n.calls[k].args = <<n.file[1], UserId>>
             /\ \A k \in d : k - 1 \in u /\ Succeeded(n, k - 1)
             /\ \A k \in u \cup d :
                  (Ended(i) /\ Failed(n, k)) =>
                    /\ (a \cup u \cup d) \cap (k + 1 .. Len(n.calls)) = {}
                    /\ errorState' =
                         Some(ErrorMessage(n.calls[k].settled[1],
                                           "An unknown error occurred."))
     /\ (saveSuccess' /\ ~saveSuccess) =>
          \E i \in Slots :
            /\ Ended(i)
            /\ \E k \in CallsOf(invocations'[i], "saveDocument") :
                 /\ k = Len(invocations'[i].calls)
                 /\ Succeeded(invocations'[i], k)
  ]_vars

\* The messages the component keeps from the user.
Unavailable(m) == m = ServiceUnavailable \/ Includes(m, "API key")

\* The message analyzeDocument threw in r, if it threw.
AnalysisFailure(r) ==
  {r.calls[k].settled[1].message : k \in {j \in CallsOf(r, "analyzeDocument") : Failed(r, j)}}

\* C18, as claimed: the step that ends an invocation whose analyzeDocument
\* call threw leaves the error state null if the message is
\* SERVICE_UNAVAILABLE or mentions 'API key', and equal to the message
\* otherwise.
C18_ErrorStateIsTheCondition ==
  [][\A i \in Slots :
       \A m \in AnalysisFailure(invocations'[i]) :
         Ended(i) => errorState' = IF Unavailable(m) THEN None ELSE Some(m)
  ]_vars

\* C18, amended: the step that ends an invocation whose analyzeDocument call
\* threw either sets the error state, to null if the message is
\* SERVICE_UNAVAILABLE or mentions 'API key' and to the message otherwise,
\* or, for a PDF submitted without a password whose second
\* isPasswordProtected call answered true, shows the password prompt for the
\* file and does not write the error state, which is null then unless
\* another invocation has written it; and whatever call threw, a message that
\* is SERVICE_UNAVAILABLE or mentions 'API key' is never put there.
C18_ErrorStateOrPrompt ==
  [][\A i \in Slots :
       LET n == invocations'[i]
       IN /\ \A m \in AnalysisFailure(n) :
               Ended(i) =>
                 IF /\ NeedsProbe(n)
                    /\ LastCall(n).op = "isPasswordProtected"
                    /\ LastCall(n).settled = Some(Resolved(TRUE))
                 THEN /\ n.exit = "prompt"
                      /\ showPasswordPrompt'
                      /\ pendingFile' = n.file
                      /\ errorState' = errorState
                      /\ Alone(i) => errorState' = None
                 ELSE /\ n.exit = "error"
                      /\ n.caught = Some(m)
                      /\ errorState' = IF Unavailable(m) THEN None ELSE Some(m)
          /\ (Ended(i) /\ n.exit = "error" /\ Unavailable(n.caught[1])) =>
               errorState' = None
  ]_vars

C18_Witness ==
  \E i \in Slots :
    /\ invocations[i].pc = "done"
    /\ invocations[i].exit = "error"
    /\ invocations[i].file = Some(DeedPdf)
    /\ invocations[i].providedPassword = None
    /\ AnalysisFailure(invocations[i]) = {PasswordProtectedMessage}
    /\ LastCall(invocations[i]).settled = Some(Resolved(FALSE))
    /\ errorState = Some(PasswordProtectedMessage)
    /\ ~showPasswordPrompt

(***************************************************************************)
(* Properties of getAiClient over several calls                            *)
(***************************************************************************)
\* What a call that finds the cached client usable returns: that very client.
CachedClient == Some([client |-> cachedAi[1], serial |-> cachedSerial])

\* C19: over calls of getAiClient between which the resolved key changes, a
\* call that resolves a key constructs a client exactly when no client is
\* cached or the cached key differs from the resolved key, and otherwise
\* returns the identical cached client; after the call the cached key is the
\* resolved key, and the client returned is the cached one and was built with
\* that key.
C19_NewClientExactlyOnKeyChange ==
  [][clientCalls' = clientCalls + 1 /\ resolveApiKey(env) # None =>
       LET key == resolveApiKey(env)
           stale == cachedAi = None \/ cachedClientKey # key
       IN /\ clientsCreated' = (IF stale THEN clientsCreated + 1 ELSE clientsCreated)
          /\ returnedClient' # None
          /\ ~stale => returnedClient' = CachedClient
          /\ stale => returnedClient'[1].serial = clientsCreated + 1
          /\ cachedClientKey' = key
          /\ returnedClient'[1].client = GoogleGenAI(key[1])
          /\ cachedAi' = Some(returnedClient'[1].client)
          /\ cachedSerial' = returnedClient'[1].serial]_vars

\* Three calls have been made, the resolved key changed between two of them,
\* and the second client constructed has been returned.
C19_Witness ==
  /\ clientCalls = 3
  /\ clientsCreated = 2
  /\ returnedClient = Some([client |-> GoogleGenAI("key-2"), serial |-> 2])
  /\ cachedClientKey = Some("key-2")

(***************************************************************************)
(* Properties of the fence stripping in analyzeDocument                    *)
(***************************************************************************)
OpeningFence == Fence \o "json"

\* The text opens with the json fence and closes with a fence of its own.
IsFenced(jsonText) ==
  /\ Len(jsonText) >= Len(OpeningFence) + Len(Fence)
  /\ StartsWith(jsonText, OpeningFence)
  /\ EndsWith(jsonText, Fence)

\* What stands between the two fences.
Between(jsonText) ==
  SubSeq(jsonText, Len(OpeningFence) + 1, Len(jsonText) - Len(Fence))

\* The text is JSON of an AnalysisResult.
IsAnalysisResultJson(text) ==
  JSONParse(text).ok /\ HasRequiredFields(JSONParse(text).val[1])

\* C20: when the provider's response is the JSON of an AnalysisResult between
\* an opening json fence and a closing fence, analyzeDocument removes both
\* fences and returns the object parsed from what stood between them; when
\* the response is valid JSON with no fence, the stripping step leaves the
\* text as it is and the object parsed from it is returned.
C20_FencesStrippedBeforeParsing ==
  [][\A text \in ResponseTexts \ {None} :
       ProviderResolves(text) =>
         LET jsonText == Trim(text[1])
         IN /\ IsFenced(jsonText) /\ IsAnalysisResultJson(Between(jsonText)) =>
                 /\ Trim(StripFences(jsonText)) = Trim(Between(jsonText))
                 /\ pc' = "returned"
                 /\ result' = JSONParse(Between(jsonText)).val
            /\ JSONParse(jsonText).ok =>
                 /\ StripFences(jsonText) = jsonText
                 /\ pc' = "returned"
                 /\ result' = JSONParse(jsonText).val]_vars

FencedCompleteJson == OpeningFence \o "\n" \o CompleteJson \o "\n" \o Fence

ParsedCompleteJson == JSONParse(CompleteJson).val

\* A call has returned the object of a fenced response.
C20_Witness ==
  /\ pc = "returned"
  /\ attempts # <<>>
  /\ attempts[Len(attempts)] = [ok |-> TRUE, message |-> FencedCompleteJson]
  /\ result = ParsedCompleteJson

(***************************************************************************)
(* Properties of the error mapping                                         *)
(***************************************************************************)
\* The conditions in the order claimed, each with the message it maps to; the
\* last one is met by every message.
Conditions(m) ==
  << [met |-> Includes(m, "API key"), message |-> ServiceUnavailable],
     [met |-> \/ Includes(ToLowerCase(m), "quota")
              \/ Includes(ToLowerCase(m), "rate")
              \/ Includes(m, "429"),
      message |-> RateLimitedMessage],
     [met |-> Includes(ToLowerCase(m), "unsupported") \/ Includes(ToLowerCase(m), "mime"),
      message |-> UnsupportedMediaMessage],
     [met |-> Includes(m, "no pages"), message |-> PasswordProtectedMessage],
     [met |-> TRUE, message |-> AnalysisFailedMessage] >>

Earliest(m) ==
  CHOOSE i \in 1..5 : Conditions(m)[i].met /\ \A j \in 1..(i - 1) : ~Conditions(m)[j].met

\* C24: the message analyzeDocument's outer catch throws is that of the first
\* condition, in the order API key, quota/rate/429, unsupported/mime, no pages,
\* anything else, that the caught message meets; a message meeting several
\* conditions gets the earliest one.
C24_MappingPrecedence ==
  pc = "thrown" /\ lastErr # None =>
    thrown = Some(Conditions(lastErr[1])[Earliest(lastErr[1])].message)

\* A message that mentions both 429 and 'no pages' was mapped to RateLimited.
C24_Witness ==
  /\ pc = "thrown"
  /\ lastErr = Some("no pages 429")
  /\ thrown = Some(RateLimitedMessage)

(***************************************************************************)
(* More properties of DocumentAnalysis                                     *)
(***************************************************************************)
\* The calls of invocation record r, as a set of positions.
CallNumbers(r) == 1..Len(r.calls)

\* C21: every convertPdfToImages call DocumentAnalysis makes carries a password
\* that is not empty and not blank; and submitting the prompt with an empty or
\* whitespace-only password sets passwordError and starts no invocation, so no
\* convertPdfToImages, analyzeDocument, uploadFile or saveDocument call is made.
C21_ConvertOnlyWithPassword ==
  [][/\ HandlePasswordSubmit /\ Trim(passwordState) = "" =>
          /\ passwordError' = Some("Please enter a password")
          /\ invocations' = invocations
     /\ \A i \in Slots : \A k \in CallNumbers(invocations'[i]) :
          invocations'[i].calls[k].op = "convertPdfToImages" =>
            /\ invocations'[i].calls[k].args[2] # ""
            /\ Trim(invocations'[i].calls[k].args[2]) = invocations'[i].calls[k].args[2]]_vars

\* A blank password was submitted for the pending file: the prompt shows the
\* error and nothing is in flight.
C21_Witness ==
  /\ showPasswordPrompt
  /\ passwordState = " "
  /\ pendingFile # None
  /\ passwordError = Some("Please enter a password")
  /\ \A i \in Slots : ~InFlightAt(i)

\* C25: whenever an invocation of handleAnalyzeWithFile has a call outstanding
\* (isPasswordProtected, convertPdfToImages, analyzeDocument, uploadFile or
\* saveDocument), isLoading is true, also when two invocations overlap.
C25_LoadingWhileInFlight ==
  (\E i \in Slots : InFlightAt(i)) => isLoading

\* The step starts an invocation of handleAnalyzeWithFile in slot i.
StartsAt(i) ==
  /\ ~InFlightAt(i)
  /\ invocations'[i] # invocations[i]
  /\ invocations'[i].file # None

\* C30: handleAnalyzeWithFile called with a file whose type is not one of the
\* six allowed or whose size exceeds 12 * 1024 * 1024 sets the error state,
\* makes no call, and leaves analysisResult, saveSuccess, isLoading and the
\* state of the password prompt as they were; a file of an allowed type and of
\* exactly 12 * 1024 * 1024 bytes is accepted and its first call is made.
C30_InvalidFileRejectedWithoutEffect ==
  [][\A i \in Slots : StartsAt(i) =>
       LET r == invocations'[i]
           file == r.file[1]
       IN /\ file.type \notin AllowedTypes \/ file.size > 12 * 1024 * 1024 =>
               /\ errorState' \in {Some(UnsupportedTypeError), Some(FileTooLargeError)}
               /\ r.calls = <<>>
               /\ r.pc = "done"
               /\ UNCHANGED <<analysisResult, saveSuccess, isLoading, showPasswordPrompt,
                              passwordState, passwordError, pendingFile>>
          /\ file.type \in AllowedTypes /\ file.size = 12 * 1024 * 1024 =>
               /\ Len(r.calls) = 1
               /\ r.pc # "done"
               /\ isLoading']_vars

\* An image of one byte more than the limit was handed over and rejected.
C30_Witness ==
  /\ errorState = Some(FileTooLargeError)
  /\ ~isLoading
  /\ \E i \in Slots :
       /\ invocations[i].file = Some(HugePng)
       /\ invocations[i].exit = "rejected"
       /\ invocations[i].calls = <<>>

(***************************************************************************)
(* Properties of documentService.deleteDocument                            *)
(***************************************************************************)
\* C22: once deleteDocument has returned success for a document whose row
\* named a file the bucket held, the bucket no longer holds that file.
C22_StoredFileGoneAfterSuccess ==
  delCall.pc = "returned" /\ delCall.stored # {} =>
    delCall.stored \cap bucket = {}

DeleteCallSucceeded(r) ==
  \E j \in CallNumbers(r) : r.calls[j].op = "delete" /\ r.calls[j].settled = Some(Resolved(None))

DeleteCallFailed(r) ==
  \E j \in CallNumbers(r) :
    /\ r.calls[j].op = "delete"
    /\ r.calls[j].settled # None
    /\ ~r.calls[j].settled[1].ok

\* C29: deleteDocument deletes the row before it touches storage: a removal is
\* requested only after the delete has succeeded, and the bucket changes only
\* then; when the delete fails the call throws that error, requests no
\* removal and leaves the bucket as it is; when the delete has succeeded the
\* row is gone, and a removal that fails (a storageError or a thrown error)
\* still ends the call with { success: true }.
C29_RowDeletedBeforeStorage ==
  [][/\ \A k \in CallNumbers(delCall') :
          delCall'.calls[k].op = "remove" =>
            \E j \in 1..(k - 1) : /\ delCall'.calls[j].op = "delete"
                                  /\ delCall'.calls[j].settled = Some(Resolved(None))
     /\ bucket' # bucket => DeleteCallSucceeded(delCall)
     /\ delCall.pc = "deleting" /\ DeleteCallFailed(delCall') =>
          /\ delCall'.pc = "thrown"
          /\ delCall'.thrown = Some(LastCall(delCall').settled[1].message)
          /\ \A k \in CallNumbers(delCall') : delCall'.calls[k].op # "remove"
          /\ UNCHANGED <<bucket, documents>>
     /\ delCall.pc = "deleting" /\ DeleteCallSucceeded(delCall') =>
          \A r \in documents' : ~(r.id = delCall.documentId /\ r.user_id = delCall.userId)
     /\ delCall.pc = "removing" /\ delCall'.pc # "removing" =>
          /\ delCall'.pc = "returned"
          /\ delCall'.returned = Some([success |-> TRUE])
          /\ delCall'.thrown = None]_vars

\* The row of d1 was deleted, the removal of its file came back with a
\* storageError, and the call returned success with the file still stored.
C29_Witness ==
  /\ delCall.pc = "returned"
  /\ delCall.documentId = "d1"
  /\ Len(delCall.calls) = 3
  /\ delCall.calls[3].op = "remove"
  /\ delCall.calls[3].settled = Some(Resolved("storageError"))
  /\ delCall.returned = Some([success |-> TRUE])
  /\ "u1/1700000000000.pdf" \in bucket
  /\ \A r \in documents : r.id # "d1"

(***************************************************************************)
(* Properties of chatService.deleteChatSession                             *)
(***************************************************************************)
\* C28: deleteChatSession deletes the rows of chat_history before the row of
\* chat_sessions, each for its (sessionId, userId) only; when the deletion of
\* the messages fails, the error is thrown and no deletion of the session is
\* requested, so the session row stays; the call returns success only when
\* both deletions succeeded, and then no message row and no session row with
\* that (sessionId, userId) remains.
C28_MessagesBeforeSession ==
  [][LET r == delSession'
         mine(row) == row.session_id = r.sessionId /\ row.user_id = r.userId
     IN /\ \A k \in CallNumbers(r) :
             r.calls[k].op = "chat_sessions.delete" =>
               /\ k = 2
               /\ r.calls[1].op = "chat_history.delete"
               /\ r.calls[1].settled = Some(Resolved(None))
               /\ r.calls[k].args = <<r.sessionId, r.userId>>
        /\ \A row \in chatHistory \ chatHistory' : mine(row)
        /\ \A row \in chatSessions \ chatSessions' : mine(row)
        /\ chatHistory' \subseteq chatHistory /\ chatSessions' \subseteq chatSessions
        /\ chatSessions' # chatSessions => \A row \in chatHistory : ~mine(row)
        /\ delSession.pc = "deletingMessages" /\ ~r.calls[1].settled[1].ok =>
             /\ r.pc = "thrown"
             /\ r.thrown = Some(r.calls[1].settled[1].message)
             /\ Len(r.calls) = 1
             /\ UNCHANGED <<chatHistory, chatSessions>>
        /\ r.pc = "returned" =>
             /\ r.returned = Some([success |-> TRUE])
             /\ \A k \in CallNumbers(r) : r.calls[k].settled = Some(Resolved(None))
             /\ Len(r.calls) = 2
             /\ \A row \in chatHistory' \cup chatSessions' : ~mine(row)]_vars

\* Session s1 of user u1 was deleted: its messages and its row are gone, those
\* of the other sessions are there.
C28_Witness ==
  /\ delSession.pc = "returned"
  /\ delSession.sessionId = "s1"
  /\ delSession.userId = "u1"
  /\ chatHistory = {row \in MessageRows : row.id \in {3, 4}}
  /\ chatSessions = {row \in SessionRows : ~(row.session_id = "s1" /\ row.user_id = "u1")}

(***************************************************************************)
(* Properties of LegalQA                                                   *)
(***************************************************************************)
\* C23: after 'Continue this conversation' for session X, once the runs of
\* initChat it set off have settled with X's history loaded, LegalQA's
\* sessionId is X, its chat was created from X's history, and no chat session
\* row has been created.
C23_ContinuedSessionStaysActive ==
  legalQA.mounted /\ initChat.pc = "done" /\ initChat.loaded # None =>
    /\ legalQA.sessionId = initChat.loaded
    /\ legalQA.chat # None
    /\ legalQA.chat[1].history = AllButLast(legalQA.messages)
    /\ chatSessions = SessionRows

\* The saves of invocation r for the given role, as positions in its calls.
SavesOf(r, role) ==
  {k \in CallNumbers(r) : r.calls[k].op = "saveMessage" /\ r.calls[k].args[3] = role}

\* The saves of the model's reply: the other saves with role 'model' are those
\* of the catch block's error message.
ReplySaves(r) ==
  {k \in SavesOf(r, "model") :
     ~StartsWith(r.calls[k].args[4], "Sorry, I encountered an error: ")}

\* C26: a send is accepted only when the input is not blank, a chat and a
\* sessionId are there and no send is loading; its first call saves the user's
\* trimmed message, and sendMessageStream is called only after that save has
\* succeeded; the model's reply is saved at most once, with a text that is not
\* empty, and only once a stream has been obtained and read to its end.
C26_SavesAroundTheModelCall ==
  [][LET r == send'
     IN /\ sends' = sends + 1 =>
             /\ Trim(legalQA.userInput) # ""
             /\ legalQA.chat # None
             /\ legalQA.sessionId # None
             /\ ~legalQA.isLoading
             /\ send.pc \in {"idle", "done"}
             /\ r.calls = <<Call("saveMessage", <<QaUserId, legalQA.sessionId[1], "user",
                                                  Trim(legalQA.userInput)>>)>>
        /\ \A k \in StreamCalls(r) :
             /\ k > 1
             /\ r.calls[1].settled = Some(Resolved(None))
             /\ SavesOf(r, "user") = {1}
        /\ Cardinality(ReplySaves(r)) <= 1
        /\ \A k \in ReplySaves(r) :
             /\ r.calls[k].args[4] # ""
             /\ r.calls[k].args[4] = r.modelResponseText
             /\ r.stream # None /\ r.stream[1].chunks = <<>> /\ r.stream[1].error = None
             /\ \E j \in StreamCalls(r) :
                  j < k /\ r.calls[j].settled # None /\ r.calls[j].settled[1].ok]_vars

\* A send was accepted, its stream was read to the end and the reply saved.
C26_Witness ==
  /\ send.pc = "done"
  /\ send.modelResponseText = "Yes."
  /\ ReplySaves(send) # {}
  /\ \E row \in chatHistory : row.role = "model" /\ row.message = "Yes."
  /\ \E row \in chatHistory : row.role = "user" /\ row.message = "Is it legal?"

\* C27: a send calls sendMessageStream at most twice; the second call is made
\* only after the first was rejected with a message matching quota, rate or
\* 429 and after a timer of 1200 ms has fired; a first rejection of another
\* kind, and any rejection of the second call, goes to the catch block of
\* handleSendMessage with no further call of sendMessageStream.
C27_OneRetryAfterRateLimit ==
  [][LET r == send'
         n == Len(r.calls)
     IN /\ Cardinality(StreamCalls(r)) <= 2
        /\ \A k \in StreamCalls(r) : \A j \in StreamCalls(r) :
             j < k =>
               /\ k = j + 2
               /\ r.calls[j].settled # None
               /\ ~r.calls[j].settled[1].ok
               /\ StreamRetryable(r.calls[j].settled[1].message)
               /\ r.calls[j + 1].op = "setTimeout"
               /\ r.calls[j + 1].args = <<1200>>
               /\ r.calls[j + 1].settled # None
        /\ send.pc = "streaming" /\ send'.pc # "streaming" =>
             LET k == CHOOSE c \in StreamCalls(r) : \A d \in StreamCalls(r) : d <= c
                 outcome == r.calls[k].settled[1]
             IN ~outcome.ok /\ (Cardinality(StreamCalls(r)) = 2
                                  \/ ~StreamRetryable(outcome.message)) =>
                  /\ r.caught = Some(outcome)
                  /\ r.pc \in {"savingError", "done"}]_vars

\* The first call was rejected with a 429, the second call, made after the
\* delay, was rejected too, and the send ended in the catch block.
C27_Witness ==
  /\ send.pc = "done"
  /\ Cardinality(StreamCalls(send)) = 2
  /\ send.caught = Some(Rejected(TRUE, "429 Too Many Requests"))
  /\ legalQA.error = Some("429 Too Many Requests")

====
